---- MODULE Spec2Model ----
(***************************************************************************)
(* A model of the youtool client library (src/youtool.py):                 *)
(*   - YouTube.__init__ / YouTube.request: the key-rotation client,         *)
(*   - YouTube.paginate: the continuation-token pagination generator,      *)
(*   - YouTube.channels_infos: the batched bulk lookup,                    *)
(*   - ipartition: the batch partitioner.                                  *)
(* Python dicts are functions whose DOMAIN is the set of keys present.     *)
(* Generators are modelled step by step: one action per resumption.        *)
(***************************************************************************)
EXTENDS Integers, Sequences, FiniteSets, TLC

\* ---------------------------------------------------------------- bounds
\* Longest credential list handed to the constructor.
MaxKeys == 3
\* Most HTTP calls one client instance issues in a run of the model.
MaxCalls == 4
\* Longest "items" list of one page.
MaxPageLen == 2
\* Longest identifier list handed to channels_infos.
MaxIds == 3
\* Stands for the literal 50 of ipartition(channels_ids, 50), scaled down.
BatchSize == 2
\* Longest input and largest partition_size tried on ipartition.
MaxSeqLen == 5
MaxPartSize == 3
MaxCues == 3
\* Longest list of videos of a harvesting run.
MaxVideos == 2
\* Longest list of videos, largest batch_size and number of runs of videos_transcriptions.
MaxTrIds == 3
MaxBatch == 2
MaxRuns == 2
\* Most rows of an input file handed to a command.
MaxRows == 1
\* Longest list of records handed to data_to_csv.
MaxRecords == 2

\* ------------------------------------------------------------- constants
\* self.__params["maxResults"]
MaxResults == 50

\* -------------------------------------------------------- value universes
\* Credentials are opaque strings the client never inspects: the list handed to
\* the constructor is named by position, KeyNames[1] first.
KeyNames == <<"k1", "k2", "k3", "k4", "k5">>
\* Continuation tokens are opaque too: the n-th HTTP call of an operation may
\* answer with the token TokenNames[n].
TokenNames == <<"t1", "t2", "t3", "t4", "t5", "t6">>
ErrorCodes == {400, 499, 500}
ErrorDetails == {"quotaExceeded", "keyInvalid"}
ChannelIds == {"c1", "c2"}
VideoIds == {"v1", "v2"}
ElemValues == {"x", "y"}

\* ------------------------------------------------------------ Python dicts
EmptyDict == [x \in {} |-> ""]
\* Python's None where a dict is expected (params=None).
PyNone == [NoneType |-> TRUE]
\* d[k] = v on a dict
SetItem(d, k, v) == [x \in (DOMAIN d) \cup {k} |-> IF x = k THEN v ELSE d[x]]
\* a.update(b)
Update(a, b) == [x \in (DOMAIN a) \cup (DOMAIN b) |-> IF x \in DOMAIN b THEN b[x] ELSE a[x]]
\* `params or {}`: None and the empty dict are both falsy
OrEmpty(p) == IF p = PyNone \/ DOMAIN p = {} THEN EmptyDict ELSE p
\* the dict without one key
Without(d, k) == [x \in (DOMAIN d) \ {k} |-> d[x]]

\* urljoin(self.base_url, path) for the relative paths the client passes
base_url == "https://youtube.googleapis.com/youtube/v3/"
Urljoin(base, path) == base \o path

VARIABLES
    init_keys,     \* the api_keys argument of the constructor
    api_keys,      \* self.__api_keys: credentials not used yet
    current_key,   \* self.__current_key
    discarded,     \* the credentials request() has dropped so far
    self_params,   \* self.__params
    calls,         \* the session.get calls of the running operation: [url, params]
    pc,            \* where the running operation stands
    caller,        \* who called request(): "direct", "paginate", "channels_infos"
    req,           \* frame of the running request(): path, params, final_params, url, first
    data,          \* request(): the last response.json()
    result,        \* what request() returned to a direct caller
    raised,        \* the exception that ended the operation, or NoError
    pag,           \* paginate(): path, the caller's params object (mutated in place), and
                   \* `given`, that object as the caller handed it over
    response,      \* paginate(): the page being yielded from
    pages,         \* every page request() handed to paginate(), in order
    idx,           \* items of the current page (or ids of the current batch) yielded so far
    yielded,       \* what the consumer of the generator has received, in order
    ci,            \* channels_infos(): ids (input), rest (not yet batched), batch, result
    ci_datas,      \* the response handed to channels_infos() for each batch, in order
    ip,            \* ipartition(): the frame of the generator
    vi,            \* videos_infos(): ids (input), rest (not yet batched), batch, datas
    env,           \* the platform: any answer at all, or answers fixed by credential and video
    hv,            \* scripts/channel_data.py: the frame of the comment and live-chat loops
    vtt,           \* simplify_vtt(): the frame of the call
    ps,            \* a parser call: the raw item, the record returned or the error raised
    tr,            \* videos_transcriptions(): the frame of the call and the destination directory
    cli            \* a command-line run: arguments, environment, exit status, stderr

clientVars == <<init_keys, api_keys, current_key, discarded, self_params>>
reqVars == <<req, data>>
pagVars == <<pag, response, pages>>
ciVars == <<ci, ci_datas>>
genVars == <<idx, yielded>>
\* the client and the operations running on it
apiVars == <<init_keys, api_keys, current_key, discarded, self_params, calls, pc, caller, req, data,
             result, raised, pag, response, pages, idx, yielded, ci, ci_datas>>
\* the functions that run without a client
sideVars == <<ip, vtt, ps, tr, cli>>
\* what request() and paginate() never touch
extVars == <<vi, env, hv, sideVars>>
\* everything but the frame of ipartition
nonIpVars == <<apiVars, vi, env, hv, vtt, ps, tr, cli>>
nonVttVars == <<apiVars, vi, env, hv, ip, ps, tr, cli>>
nonPsVars == <<apiVars, vi, env, hv, ip, vtt, tr, cli>>
nonTrVars == <<apiVars, vi, env, hv, ip, vtt, ps, cli>>
nonCliVars == <<apiVars, vi, env, hv, ip, vtt, ps, tr>>
vars == <<init_keys, api_keys, current_key, discarded, self_params, calls, pc, caller, req, data,
          result, raised, pag, response, pages, idx, yielded, ci, ci_datas, ip, vi, env, hv, vtt, ps,
          tr, cli>>

NoError == [type |-> "none"]
NoReq == [path |-> "", params |-> EmptyDict, final_params |-> EmptyDict, url |-> "", first |-> 0]
NoData == EmptyDict
NoPag == [path |-> "", params |-> EmptyDict, given |-> EmptyDict]
NoCi == [ids |-> << >>, rest |-> << >>, batch |-> << >>, result |-> EmptyDict]
NoIp == [input |-> << >>, kind |-> "list", size |-> 0, pos |-> 0, finished |-> FALSE,
         data |-> << >>, count |-> 0, out |-> << >>, pulled |-> << >>, nexts |-> 0,
         stops |-> 0, pc |-> "off"]
NoVi == [ids |-> << >>, rest |-> << >>, batch |-> << >>, datas |-> << >>]
\* The platform of the client specification: it may answer anything.
FreeEnv == [mode |-> "free"]
NoHv == [pc |-> "off", videos |-> << >>, pos |-> 0, written |-> << >>, caught |-> 0,
         exhausted_at |-> 0, chat_pos |-> 0, chat |-> << >>]
NoVtt == [pc |-> "off", cues |-> << >>, pos |-> 0, lines |-> << >>, simplified |-> << >>,
          last_line |-> << >>]
NoPs == [pc |-> "off", parser |-> "", item |-> EmptyDict, out |-> EmptyDict, raised |-> NoError]
NoTr == [pc |-> "off", ids |-> << >>, lang |-> "", skip |-> TRUE, size |-> 1, pos |-> 0,
         batch |-> << >>, files |-> {}, files0 |-> {}, submitted |-> << >>, errors |-> 0,
         run |-> 1, skipped |-> {}]
NoCli == [pc |-> "off", command |-> "", flag |-> "None", environ |-> "None",
          bound |-> {}, raised |-> "None", status |-> -1, stderr |-> "",
          ids |-> PyNone, urls |-> PyNone, file |-> PyNone, work |-> 0]

\* ------------------------------------------------------------- transport
\* What the platform may answer to the n-th HTTP call of an operation: an error
\* document, or a result document of the resource asked for.
ErrorResponses ==
    {[error |-> [code |-> c, errors |-> e]] : c \in ErrorCodes, e \in ErrorDetails}
PlainResponses == {[kind |-> "youtube#response"]}
\* A raw item of a page: opaque to paginate, named by the call and the place it came at.
RawItem(n, i) == [page |-> n, place |-> i]
PageItems(n, len) == [i \in 1..len |-> RawItem(n, i)]
PageResponses(n) ==
    {[items |-> PageItems(n, len)] : len \in 0..MaxPageLen}
    \cup {[items |-> PageItems(n, len), nextPageToken |-> TokenNames[n]] : len \in 0..MaxPageLen}
\* A raw channel resource, cut down to the fields the model follows.
RawChannel(id) == [id |-> id, snippet |-> [title |-> "title of " \o id]]
ChannelLists == UNION {[1..n -> {RawChannel(c) : c \in ChannelIds}] : n \in 0..2}
ChannelResponses == {[items |-> l] : l \in ChannelLists}
\* A raw video resource of the videos endpoint, cut down to the fields the model follows.
RawVideo(id) ==
    [kind |-> "youtube#video", id |-> [t |-> "str", v |-> id],
     snippet |-> [title |-> [t |-> "str", v |-> "title of " \o id]]]
VideoLists == UNION {[1..n -> {RawVideo(v) : v \in VideoIds}] : n \in 0..2}
VideoResponses == {[items |-> l] : l \in VideoLists}
Responses(who, n) ==
    CASE who = "direct" -> ErrorResponses \cup PlainResponses
      [] who = "paginate" -> ErrorResponses \cup PlainResponses \cup PageResponses(n)
      [] who = "channels_infos" -> ErrorResponses \cup PlainResponses \cup ChannelResponses
      [] who = "videos_infos" -> ErrorResponses \cup PlainResponses \cup VideoResponses

\* session.get(url, params=final_params): the call as the transport sees it
HttpCall(url, final_params) == [url |-> url, params |-> final_params]

\* A comment thread of a video, as the n-th call returns it: the top-level
\* comment and, for some threads, replies.
RawThread(video, n, replies) ==
    LET comment(id) == [id |-> [t |-> "str", v |-> id],
                        snippet |-> [videoId |-> [t |-> "str", v |-> video],
                                     textOriginal |-> [t |-> "str", v |-> "text of " \o id],
                                     authorDisplayName |-> [t |-> "str", v |-> "author"]]]
        top == [topLevelComment |-> comment(TokenNames[n]), totalReplyCount |-> [t |-> "int", v |-> replies]]
    IN IF replies = 0 THEN [id |-> TokenNames[n], snippet |-> top]
       ELSE [id |-> TokenNames[n], snippet |-> top,
             replies |-> [comments |-> [i \in 1..replies |->
                                           comment(TokenNames[n] \o "." \o TokenNames[i])]]]
\* What the platform answers when its state is fixed by env: a credential that
\* is not accepted gets 403 whatever is asked; comments of a video that has
\* them disabled get 403 with any credential; otherwise a page of one thread,
\* the last page or not.
PlatformAnswers(n, call) ==
    IF call.params["key"] \notin env.working
    THEN {[error |-> [code |-> 403, errors |-> "quotaExceeded"]]}
    ELSE IF call.params["videoId"] \in env.disabled
    THEN {[error |-> [code |-> 403, errors |-> "commentsDisabled"]]}
    ELSE {[items |-> <<RawThread(call.params["videoId"], n, 0)>>],
          [items |-> <<RawThread(call.params["videoId"], n, 2)>>,
           nextPageToken |-> TokenNames[n]]}
\* response.json() of the n-th call
Answers(who, n, call) ==
    IF env.mode = "free" THEN Responses(who, n) ELSE PlatformAnswers(n, call)

\* Fault variant of Is4xx: the upper end of the range is not tested.
Is4xxNoUpperBound(d) == IF "error" \in DOMAIN d THEN 400 <= d["error"]["code"] ELSE FALSE
\* `"error" in data and 400 <= data["error"]["code"] < 500`
Is4xx(d) ==
    IF "error" \in DOMAIN d THEN 400 <= d["error"]["code"] /\ d["error"]["code"] < 500 ELSE FALSE

\* Every frame outside S is the frame of a function that is not running.
Off(S) ==
    /\ IF "vi" \in S THEN TRUE ELSE vi = NoVi
    /\ IF "env" \in S THEN TRUE ELSE env = FreeEnv
    /\ IF "hv" \in S THEN TRUE ELSE hv = NoHv
    /\ IF "ip" \in S THEN TRUE ELSE ip = NoIp
    /\ IF "vtt" \in S THEN TRUE ELSE vtt = NoVtt
    /\ IF "ps" \in S THEN TRUE ELSE ps = NoPs
    /\ IF "tr" \in S THEN TRUE ELSE tr = NoTr
    /\ IF "cli" \in S THEN TRUE ELSE cli = NoCli

\* Lines 323-331: the client as __init__ leaves it for a list of credentials,
\* with no operation running.
ClientIdle(keys) ==
    /\ init_keys = keys
    /\ api_keys = Tail(keys)
    /\ current_key = Head(keys)
    /\ discarded = {}
    /\ self_params = [key |-> Head(keys), maxResults |-> MaxResults]
    /\ calls = << >>
    /\ pc = "idle"
    /\ caller = "none"
    /\ req = NoReq
    /\ data = NoData
    /\ result = NoData
    /\ raised = NoError
    /\ pag = NoPag
    /\ response = NoData
    /\ pages = << >>
    /\ idx = 0
    /\ yielded = << >>
    /\ ci = NoCi
    /\ ci_datas = << >>
\* The client while a function that does not use it runs.
ClientAtRest == ClientIdle(<<KeyNames[1]>>)

\* ------------------------------------------------------------ __init__
\* api_keys.pop(0) fails on an empty list, so a client exists only for
\* a non-empty credential list.
KeyLists == {SubSeq(KeyNames, 1, n) : n \in 1..MaxKeys}

Init ==
    /\ \E keys \in KeyLists : ClientIdle(keys)
    /\ Off({})

\* ------------------------------------------------------------- request
\* Fault variant of FinalParams: only the key of self.__params is carried over.
FinalParamsKeyOnly(base, p) == Update([key |-> base["key"]], OrEmpty(p))
\* final_params = self.__params.copy(); final_params.update(params or {})
FinalParams(base, p) == Update(base, OrEmpty(p))

\* Lines 334-339: build the parameters and issue the first HTTP call.
RequestBegin(who, path, p) ==
    /\ Len(calls) < MaxCalls
    /\ LET fp == FinalParams(self_params, p)
           url == Urljoin(base_url, path)
       IN /\ req' = [path |-> path, params |-> p, final_params |-> fp, url |-> url,
                     first |-> Len(calls) + 1]
          /\ calls' = Append(calls, HttpCall(url, fp))
          /\ \E resp \in Answers(who, Len(calls) + 1, HttpCall(url, fp)) : data' = resp
    /\ caller' = who
    /\ pc' = "request"
    /\ UNCHANGED <<clientVars, result, raised>>

\* Fault variant of PopFirst: the credential taken stays in the list.
PopFirstKept(keys) == [key |-> Head(keys), rest |-> keys]
\* Fault variant of PopFirst: pop() takes the last credential instead of the first.
PopLast(keys) == [key |-> keys[Len(keys)], rest |-> SubSeq(keys, 1, Len(keys) - 1)]
\* self.__api_keys.pop(0): the credential taken and the list left
PopFirst(keys) == [key |-> Head(keys), rest |-> Tail(keys)]

\* Line 345, self.__params["key"] = final_params["key"] = self.__current_key:
\* the parameters of the retried call ...
RotateFinalParams(final_params, k) == SetItem(final_params, "key", k)
\* Fault variant of RotateSelfParams: only final_params gets the new key.
RotateSelfParamsForgotten(params, k) == params
\* ... and the client's own, which later requests start from.
RotateSelfParams(params, k) == SetItem(params, "key", k)

\* Lines 340-347, one iteration of the loop with a credential left.
RequestRetry ==
    /\ pc = "request"
    /\ Is4xx(data)
    /\ api_keys # << >>
    /\ Len(calls) < MaxCalls
    /\ LET popped == PopFirst(api_keys)
           k == popped.key
           fp == RotateFinalParams(req.final_params, k)
       IN /\ current_key' = k
          /\ api_keys' = popped.rest
          /\ discarded' = discarded \cup {current_key}
          /\ self_params' = RotateSelfParams(self_params, k)
          /\ req' = [req EXCEPT !.final_params = fp]
          /\ calls' = Append(calls, HttpCall(req.url, fp))
          /\ \E resp \in Answers(caller, Len(calls) + 1, HttpCall(req.url, fp)) : data' = resp
    /\ UNCHANGED <<init_keys, pc, caller, result, raised, pagVars, genVars, ciVars, extVars>>

\* Fault variant of ExhaustedError: the message names the status code, not the details.
ExhaustedErrorCodeOnly(d) ==
    [type |-> "RuntimeError",
     message |-> "Too many 4xx errors, tried all YouTube keys",
     errors |-> "HTTP 4xx"]
\* The RuntimeError of line 344.
ExhaustedError(d) ==
    [type |-> "RuntimeError",
     message |-> "Too many 4xx errors, tried all YouTube keys",
     errors |-> d["error"]["errors"]]

\* Lines 341-344: pop(0) on the empty list raises IndexError, turned into a
\* RuntimeError that no caller inside the client catches.
RequestExhausted ==
    /\ pc = "request"
    /\ Is4xx(data)
    /\ api_keys = << >>
    /\ raised' = ExhaustedError(data)
    /\ pc' = "raised"
    /\ UNCHANGED <<clientVars, calls, caller, reqVars, result, pagVars, genVars, ciVars, extVars>>

\* Where request() returns to.
ReturnPc(who) ==
    CASE who = "direct" -> "returned"
      [] who = "paginate" -> "pag_items"
      [] who = "channels_infos" -> "ci_data"
      [] who = "videos_infos" -> "vi_data"

\* Line 348: `return data`, handed to the caller's variable.
RequestReturn ==
    /\ pc = "request"
    /\ ~Is4xx(data)
    /\ pc' = ReturnPc(caller)
    /\ CASE caller = "direct" ->
              /\ result' = data
              /\ UNCHANGED <<pagVars, ciVars, vi>>
         [] caller = "paginate" ->
              /\ response' = data
              /\ pages' = Append(pages, data)
              /\ UNCHANGED <<result, pag, ciVars, vi>>
         [] caller = "channels_infos" ->
              /\ ci_datas' = Append(ci_datas, data)
              /\ UNCHANGED <<result, pagVars, ci, vi>>
         [] caller = "videos_infos" ->
              /\ vi' = [vi EXCEPT !.datas = Append(@, data)]
              /\ UNCHANGED <<result, pagVars, ciVars>>
    /\ UNCHANGED <<clientVars, calls, caller, reqVars, raised, genVars, env, hv, sideVars>>

\* Parameter dicts of the direct callers: categories() and
\* channel_id_from_username(); request() itself defaults to params=None.
DirectCalls ==
    {[path |-> "videoCategories", params |-> [regionCode |-> "BR"]],
     [path |-> "channels", params |-> [part |-> "id", forUsername |-> "turicas"]],
     [path |-> "channels", params |-> PyNone]}

CallRequest ==
    /\ pc = "idle"
    /\ \E c \in DirectCalls : RequestBegin("direct", c.path, c.params)
    /\ UNCHANGED <<pagVars, genVars, ciVars, extVars>>

\* ------------------------------------------------------------- paginate
\* Callers of paginate(): channel_playlists() and the like pass a dict;
\* paginate() itself defaults to params=None; an empty dict is a dict.
PaginateCalls ==
    {[path |-> "playlists", params |-> [part |-> "contentDetails,snippet", channelId |-> "c1"]],
     [path |-> "videos", params |-> EmptyDict],
     [path |-> "videos", params |-> PyNone]}

NoToken == "<None>"
\* response.get("nextPageToken")
NextPageToken(resp) == IF "nextPageToken" \in DOMAIN resp THEN resp["nextPageToken"] ELSE NoToken

\* The consumer creates the generator and asks for its first item: lines 351-353.
CallPaginate ==
    /\ pc = "idle"
    /\ \E c \in PaginateCalls :
          /\ pag' = [path |-> c.path, params |-> c.params, given |-> c.params]
          /\ RequestBegin("paginate", c.path, c.params)
    /\ UNCHANGED <<response, pages, genVars, ciVars, extVars>>

\* Line 354, `yield from response["items"]`: the next item of the page.
PaginateYield ==
    /\ pc = "pag_items"
    /\ "items" \in DOMAIN response
    /\ idx < Len(response["items"])
    /\ yielded' = Append(yielded, response["items"][idx + 1])
    /\ idx' = idx + 1
    /\ UNCHANGED <<clientVars, calls, pc, caller, reqVars, result, raised, pagVars, ciVars, extVars>>

\* Line 354 on a document without "items" (an error document that is not 4xx).
PaginateKeyError ==
    /\ pc = "pag_items"
    /\ "items" \notin DOMAIN response
    /\ raised' = [type |-> "KeyError", key |-> "items"]
    /\ pc' = "raised"
    /\ UNCHANGED <<clientVars, calls, caller, reqVars, result, pagVars, genVars, ciVars, extVars>>

\* Lines 355-357: the page carries no continuation token, the generator ends.
PaginateStop ==
    /\ pc = "pag_items"
    /\ "items" \in DOMAIN response
    /\ idx = Len(response["items"])
    /\ NextPageToken(response) = NoToken
    /\ pc' = "done"
    /\ UNCHANGED <<clientVars, calls, caller, reqVars, result, raised, pagVars, genVars, ciVars, extVars>>

\* Line 358, params["pageToken"] = next_page_token, on the caller's dict.
SetPageToken(params, token) == SetItem(params, "pageToken", token)

\* Lines 355-358 and 353: store the token in the caller's dict and request the next page.
PaginateNextPage ==
    /\ pc = "pag_items"
    /\ "items" \in DOMAIN response
    /\ idx = Len(response["items"])
    /\ NextPageToken(response) # NoToken
    /\ pag.params # PyNone
    /\ LET p == SetPageToken(pag.params, NextPageToken(response))
       IN /\ pag' = [pag EXCEPT !.params = p]
          /\ RequestBegin("paginate", pag.path, p)
    /\ idx' = 0
    /\ UNCHANGED <<response, pages, yielded, ciVars, extVars>>

\* Line 358 when the caller passed no dict: None does not support item assignment.
PaginateTypeError ==
    /\ pc = "pag_items"
    /\ "items" \in DOMAIN response
    /\ idx = Len(response["items"])
    /\ NextPageToken(response) # NoToken
    /\ pag.params = PyNone
    /\ raised' = [type |-> "TypeError", key |-> "pageToken"]
    /\ pc' = "raised"
    /\ UNCHANGED <<clientVars, calls, caller, reqVars, result, pagVars, genVars, ciVars, extVars>>

\* ---------------------------------------------------- values and cleanup
\* A value of the JSON documents the parsers read, tagged with its Python type
\* where a function tests it with isinstance.
PyStr(s) == [t |-> "str", v |-> s]
PyInt(n) == [t |-> "int", v |-> n]
PyList(l) == [t |-> "list", v |-> l]
PyDict(d) == [t |-> "dict", v |-> d]

\* Stands for the character U+0000, which a string of the model cannot hold.
NUL == "@"
\* The characters str.strip() removes, as far as the model's strings hold them.
Whitespace == {" ", "\t", "\n"}
CharAt(s, i) == SubSeq(s, i, i)

\* data.replace("\x00", "")
RECURSIVE RemoveNul(_)
RemoveNul(s) ==
    IF s = "" THEN ""
    ELSE IF CharAt(s, 1) = NUL THEN RemoveNul(SubSeq(s, 2, Len(s)))
    ELSE CharAt(s, 1) \o RemoveNul(SubSeq(s, 2, Len(s)))

RECURSIVE LStrip(_)
LStrip(s) ==
    IF s = "" THEN ""
    ELSE IF CharAt(s, 1) \in Whitespace THEN LStrip(SubSeq(s, 2, Len(s)))
    ELSE s
RECURSIVE RStrip(_)
RStrip(s) ==
    IF s = "" THEN ""
    ELSE IF CharAt(s, Len(s)) \in Whitespace THEN RStrip(SubSeq(s, 1, Len(s) - 1))
    ELSE s
\* str.strip()
Strip(s) == RStrip(LStrip(s))

\* Line 31: data.replace("\x00", "").strip()
CleanStr(s) == Strip(RemoveNul(s))

\* cleanup(data), lines 30-37.
RECURSIVE cleanup(_)
cleanup(value) ==
    IF value = PyNone THEN value
    ELSE CASE value.t = "str" -> PyStr(CleanStr(value.v))
           [] value.t = "list" -> PyList([i \in DOMAIN value.v |-> cleanup(value.v[i])])
           [] value.t = "dict" -> PyDict([k \in DOMAIN value.v |-> cleanup(value.v[k])])
           [] OTHER -> value

\* ------------------------------------------------------- parse_video_data
\* item.get(name, {}) or {}
Section(item, name) ==
    IF name \in DOMAIN item THEN (IF item[name] = PyNone THEN EmptyDict ELSE item[name])
    ELSE EmptyDict
\* d.get(k)
Get(d, k) == IF k \in DOMAIN d THEN d[k] ELSE PyNone

KnownKinds == {"youtube#video", "youtube#playlistItem", "youtube#searchResult"}

\* Fault variant of video_id: every kind reads the top-level "id".
video_id_top_level(item) == item["id"]
\* Lines 183, 193 and 201: where each kind of resource keeps the video's id.
video_id(item) ==
    CASE item["kind"] = "youtube#video" -> item["id"]
      [] item["kind"] = "youtube#playlistItem" -> Section(item, "snippet")["resourceId"]["videoId"]
      [] item["kind"] = "youtube#searchResult" -> item["id"]["videoId"]

\* Lines 207-212: an item of another kind raises ValueError.
UnknownKindError(item) ==
    [type |-> "ValueError", message |-> "Unknown kind of video to parse: " \o item["kind"]]

\* Lines 170-236, for an item of a known kind and the fields the model follows:
\* the record is built (the video's owner is read from a key of its own in a
\* playlist item, whose channelId names the playlist's owner) and handed to cleanup.
parse_video_data(item) ==
    cleanup(PyDict([id |-> video_id(item),
                    status |-> Get(Section(item, "status"), "privacyStatus"),
                    channel_id |-> Get(Section(item, "snippet"),
                                       IF item["kind"] = "youtube#playlistItem"
                                       THEN "videoOwnerChannelId" ELSE "channelId"),
                    playlist_channel_id |-> IF item["kind"] = "youtube#playlistItem"
                                            THEN Get(Section(item, "snippet"), "channelId")
                                            ELSE PyNone,
                    title |-> Get(Section(item, "snippet"), "title"),
                    tags |-> Get(Section(item, "snippet"), "tags")])).v

\* ------------------------------------------------------- channels_infos
IdLists == UNION {[1..n -> ChannelIds] : n \in 0..MaxIds}

Min(a, b) == IF a < b THEN a ELSE b
\* Fault variant of TakeBatch: the whole remainder goes into one batch.
TakeBatchWhole(rest, size) == rest
\* The batch ipartition yields next from what is left of the list, and what is left after it.
TakeBatch(rest, size) == SubSeq(rest, 1, Min(size, Len(rest)))
DropBatch(rest, size) == SubSeq(rest, Min(size, Len(rest)) + 1, Len(rest))

\* ",".join(batch)
RECURSIVE Join(_)
Join(batch) ==
    IF batch = << >> THEN ""
    ELSE IF Len(batch) = 1 THEN batch[1]
    ELSE batch[1] \o "," \o Join(Tail(batch))

\* {**base_params, "id": ",".join(batch)}
ChannelsParams(batch) == [part |-> "snippet,contentDetails,statistics", id |-> Join(batch)]

\* parse_channel_data, for the fields of RawChannel.
parse_channel_data(item) == [id |-> item["id"], title |-> item["snippet"]["title"]]

\* Lines 420-423: the dict of the batch's records by id; a later item of the
\* same id replaces an earlier one.
RECURSIVE BuildResult(_, _)
BuildResult(acc, items) ==
    IF items = << >> THEN acc
    ELSE LET channel_info == parse_channel_data(Head(items))
         IN BuildResult(SetItem(acc, channel_info["id"], channel_info), Tail(items))

\* result.get(channel_id)
DictGet(d, k) == IF k \in DOMAIN d THEN d[k] ELSE PyNone

\* `not data.get("items")`: no "items" key, or an empty list
NoItems(d) == IF "items" \in DOMAIN d THEN d["items"] = << >> ELSE TRUE

\* The generator is created and the consumer asks for its first output.
CallChannelsInfos ==
    /\ pc = "idle"
    /\ \E ids \in IdLists : ci' = [ids |-> ids, rest |-> ids, batch |-> << >>, result |-> EmptyDict]
    /\ pc' = "ci_next"
    /\ caller' = "channels_infos"
    /\ UNCHANGED <<clientVars, calls, reqVars, result, raised, pagVars, genVars, ci_datas, extVars>>

\* Lines 416-417: the next batch of at most BatchSize ids and its request.
ChannelsInfosNextBatch ==
    /\ pc = "ci_next"
    /\ ci.rest # << >>
    /\ LET batch == TakeBatch(ci.rest, BatchSize)
       IN /\ ci' = [ci EXCEPT !.batch = batch, !.rest = DropBatch(ci.rest, BatchSize)]
          /\ RequestBegin("channels_infos", "channels", ChannelsParams(batch))
    /\ UNCHANGED <<pagVars, genVars, ci_datas, extVars>>

\* Line 416 once ipartition is exhausted: the generator ends.
ChannelsInfosStop ==
    /\ pc = "ci_next"
    /\ ci.rest = << >>
    /\ pc' = "done"
    /\ UNCHANGED <<clientVars, calls, caller, reqVars, result, raised, pagVars, genVars, ciVars, extVars>>

\* Lines 418-419: a response without items skips the whole batch.
ChannelsInfosSkip ==
    /\ pc = "ci_data"
    /\ NoItems(data)
    /\ pc' = "ci_next"
    /\ UNCHANGED <<clientVars, calls, caller, reqVars, result, raised, pagVars, genVars, ciVars, extVars>>

\* Lines 420-423.
ChannelsInfosBuild ==
    /\ pc = "ci_data"
    /\ ~NoItems(data)
    /\ ci' = [ci EXCEPT !.result = BuildResult(EmptyDict, data["items"])]
    /\ idx' = 0
    /\ pc' = "ci_yield"
    /\ UNCHANGED <<clientVars, calls, caller, reqVars, result, raised, pagVars, yielded, ci_datas, extVars>>

\* Lines 424-425: the record of the next id of the batch, or None.
ChannelsInfosYield ==
    /\ pc = "ci_yield"
    /\ idx < Len(ci.batch)
    /\ yielded' = Append(yielded, DictGet(ci.result, ci.batch[idx + 1]))
    /\ idx' = idx + 1
    /\ UNCHANGED <<clientVars, calls, pc, caller, reqVars, result, raised, pagVars, ciVars, extVars>>

\* Line 424 at the end of the batch: back to line 416.
ChannelsInfosBatchDone ==
    /\ pc = "ci_yield"
    /\ idx = Len(ci.batch)
    /\ pc' = "ci_next"
    /\ UNCHANGED <<clientVars, calls, caller, reqVars, result, raised, pagVars, genVars, ciVars, extVars>>

\* --------------------------------------------------------- videos_infos
VideoIdLists == UNION {[1..n -> VideoIds] : n \in 0..MaxIds}

\* {**base_params, "id": ",".join(batch)}
VideosParams(batch) ==
    [part |-> "contentDetails,statistics,liveStreamingDetails,snippet,status", id |-> Join(batch)]

\* Fault variant of VideoItem: the loop hands over the first item every time.
VideoItemFirst(d, i) == d["items"][1]
\* Line 442, `for item in data["items"]`: the item of the i-th iteration.
VideoItem(d, i) == d["items"][i]

\* The generator is created and the consumer asks for its first output.
CallVideosInfos ==
    /\ pc = "idle"
    /\ \E ids \in VideoIdLists : vi' = [ids |-> ids, rest |-> ids, batch |-> << >>, datas |-> << >>]
    /\ pc' = "vi_next"
    /\ caller' = "videos_infos"
    /\ UNCHANGED <<clientVars, calls, reqVars, result, raised, pagVars, genVars, ciVars, env, hv,
                   sideVars>>

\* Lines 440-441: the next batch of at most BatchSize ids and its request.
VideosInfosNextBatch ==
    /\ pc = "vi_next"
    /\ vi.rest # << >>
    /\ LET batch == TakeBatch(vi.rest, BatchSize)
       IN /\ vi' = [vi EXCEPT !.batch = batch, !.rest = DropBatch(vi.rest, BatchSize)]
          /\ RequestBegin("videos_infos", "videos", VideosParams(batch))
    /\ UNCHANGED <<pagVars, genVars, ciVars, env, hv, sideVars>>

\* Line 440 once ipartition is exhausted: the generator ends.
VideosInfosStop ==
    /\ pc = "vi_next"
    /\ vi.rest = << >>
    /\ pc' = "done"
    /\ UNCHANGED <<clientVars, calls, caller, reqVars, result, raised, pagVars, genVars, ciVars,
                   extVars>>

\* Line 442 on a document without "items".
VideosInfosKeyError ==
    /\ pc = "vi_data"
    /\ "items" \notin DOMAIN data
    /\ raised' = [type |-> "KeyError", key |-> "items"]
    /\ pc' = "raised"
    /\ UNCHANGED <<clientVars, calls, caller, reqVars, result, pagVars, genVars, ciVars, extVars>>

\* Lines 442-443: the record of the next item of the response.
VideosInfosYield ==
    /\ pc = "vi_data"
    /\ "items" \in DOMAIN data
    /\ idx < Len(data["items"])
    /\ yielded' = Append(yielded, parse_video_data(VideoItem(data, idx + 1)))
    /\ idx' = idx + 1
    /\ UNCHANGED <<clientVars, calls, pc, caller, reqVars, result, raised, pagVars, ciVars,
                   extVars>>

\* Fault variant of VideosInfosBatchDone: the loop goes for the next batch
\* before the items of this one were handed over.
VideosInfosBatchDoneEager ==
    /\ pc = "vi_data"
    /\ "items" \in DOMAIN data
    /\ idx' = 0
    /\ pc' = "vi_next"
    /\ UNCHANGED <<clientVars, calls, caller, reqVars, result, raised, pagVars, yielded, ciVars,
                   extVars>>
\* Line 442 at the end of the items: back to line 440.
VideosInfosBatchDone ==
    /\ pc = "vi_data"
    /\ "items" \in DOMAIN data
    /\ idx = Len(data["items"])
    /\ idx' = 0
    /\ pc' = "vi_next"
    /\ UNCHANGED <<clientVars, calls, caller, reqVars, result, raised, pagVars, yielded, ciVars,
                   extVars>>

\* The consumer drops a generator that is suspended at a yield (lines 354, 425
\* and 443) instead of asking for the next item: no more of its code runs.
GeneratorClose ==
    /\ pc \in {"pag_items", "ci_yield", "vi_data"}
    /\ idx > 0
    /\ pc' = "closed"
    /\ UNCHANGED <<clientVars, calls, caller, reqVars, result, raised, pagVars, genVars, ciVars,
                   extVars>>

\* The operation is over (it returned, raised, or its generator is exhausted
\* or dropped); the client instance lives on with its credentials.
Finish ==
    /\ pc \in {"returned", "raised", "done", "closed"}
    /\ pc' = "idle"
    /\ caller' = "none"
    /\ calls' = << >>
    /\ req' = NoReq
    /\ data' = NoData
    /\ result' = NoData
    /\ raised' = NoError
    /\ pag' = NoPag
    /\ response' = NoData
    /\ pages' = << >>
    /\ idx' = 0
    /\ yielded' = << >>
    /\ ci' = NoCi
    /\ ci_datas' = << >>
    /\ vi' = NoVi
    /\ UNCHANGED <<clientVars, env, hv, sideVars>>

Next ==
    \/ CallRequest
    \/ RequestRetry
    \/ RequestExhausted
    \/ RequestReturn
    \/ CallPaginate
    \/ PaginateYield
    \/ PaginateKeyError
    \/ PaginateStop
    \/ PaginateNextPage
    \/ PaginateTypeError
    \/ CallChannelsInfos
    \/ ChannelsInfosNextBatch
    \/ ChannelsInfosStop
    \/ ChannelsInfosSkip
    \/ ChannelsInfosBuild
    \/ ChannelsInfosYield
    \/ ChannelsInfosBatchDone
    \/ CallVideosInfos
    \/ VideosInfosNextBatch
    \/ VideosInfosStop
    \/ VideosInfosKeyError
    \/ VideosInfosYield
    \/ VideosInfosBatchDone
    \/ GeneratorClose
    \/ Finish

Spec == Init /\ [][Next]_vars

\* request() on its own, called again and again on one client: its loop runs
\* until it returns or raises, whatever the platform answers.
RequestNext == CallRequest \/ RequestRetry \/ RequestExhausted \/ RequestReturn \/ Finish
SpecRequest ==
    /\ Init
    /\ [][RequestNext]_vars
    /\ WF_vars(RequestRetry)
    /\ WF_vars(RequestExhausted)
    /\ WF_vars(RequestReturn)

\* ----------------------------------------------------------- ipartition
\* ipartition on its own: the generator's frame, one action per step of its code.
\* ip.input is what the iterator has to give, ip.pos how much of it was pulled;
\* ip.pulled, ip.nexts and ip.stops record the next() calls made on it.
ElemLists == UNION {[1..n -> ElemValues] : n \in 0..MaxSeqLen}

\* Lines 42-47. A list is wrapped by iter(); an iterator is used as it is.
\* Either way the only access is next().
PartInit ==
    /\ ClientAtRest
    /\ Off({"ip"})
    /\ \E input \in ElemLists, size \in 0..MaxPartSize, kind \in {"list", "iterator"} :
          ip = [NoIp EXCEPT !.input = input, !.kind = kind, !.size = size, !.pc = "while"]

\* next(iterator): the element at the iterator's position, or StopIteration.
IterNext(input, pos) ==
    IF pos < Len(input)
    THEN [stop |-> FALSE, value |-> input[pos + 1], pos |-> pos + 1]
    ELSE [stop |-> TRUE, value |-> "", pos |-> pos]

\* Lines 48-49: `while not finished: data = []`
IpWhile ==
    /\ ip.pc = "while"
    /\ ~ip.finished
    /\ ip' = [ip EXCEPT !.data = << >>, !.count = 0, !.pc = "for"]
    /\ UNCHANGED nonIpVars

\* Lines 50-52: one turn of the for loop whose next() gives an element.
IpAppend ==
    /\ ip.pc = "for"
    /\ ip.count < ip.size
    /\ LET n == IterNext(ip.input, ip.pos)
       IN /\ ~n.stop
          /\ ip' = [ip EXCEPT !.data = Append(ip.data, n.value), !.pos = n.pos,
                              !.count = ip.count + 1, !.nexts = ip.nexts + 1,
                              !.pulled = Append(ip.pulled, n.value)]
    /\ UNCHANGED nonIpVars

\* Fault variant of IpStopIteration: `finished = True` is missing, only `break`.
IpStopIterationNotFinished ==
    /\ ip.pc = "for"
    /\ ip.count < ip.size
    /\ ip.stops < 3
    /\ LET n == IterNext(ip.input, ip.pos)
       IN /\ n.stop
          /\ ip' = [ip EXCEPT !.nexts = ip.nexts + 1, !.stops = ip.stops + 1, !.pc = "if"]
    /\ UNCHANGED nonIpVars

\* Lines 50-55: next() raises StopIteration: finished = True; break.
IpStopIteration ==
    /\ ip.pc = "for"
    /\ ip.count < ip.size
    /\ LET n == IterNext(ip.input, ip.pos)
       IN /\ n.stop
          /\ ip' = [ip EXCEPT !.finished = TRUE, !.nexts = ip.nexts + 1,
                              !.stops = ip.stops + 1, !.pc = "if"]
    /\ UNCHANGED nonIpVars

\* Line 50: range(partition_size) is used up.
IpForEnd ==
    /\ ip.pc = "for"
    /\ ip.count >= ip.size
    /\ ip' = [ip EXCEPT !.pc = "if"]
    /\ UNCHANGED nonIpVars

\* Lines 56-57: `if data: yield data`
IpYield ==
    /\ ip.pc = "if"
    /\ ip.data # << >>
    /\ ip' = [ip EXCEPT !.out = Append(ip.out, ip.data), !.pc = "while"]
    /\ UNCHANGED nonIpVars

\* Fault variant of IpNoYield: the `if data:` test is missing, the empty batch is yielded.
IpYieldEmpty ==
    /\ ip.pc = "if"
    /\ ip.data = << >>
    /\ ip' = [ip EXCEPT !.out = Append(ip.out, ip.data), !.pc = "while"]
    /\ UNCHANGED nonIpVars

\* Line 56 with an empty batch: nothing is yielded.
IpNoYield ==
    /\ ip.pc = "if"
    /\ ip.data = << >>
    /\ ip' = [ip EXCEPT !.pc = "while"]
    /\ UNCHANGED nonIpVars

\* Line 48 once finished: the generator returns.
IpReturn ==
    /\ ip.pc = "while"
    /\ ip.finished
    /\ ip' = [ip EXCEPT !.pc = "done"]
    /\ UNCHANGED nonIpVars

PartNext ==
    \/ IpWhile
    \/ IpAppend
    \/ IpStopIteration
    \/ IpForEnd
    \/ IpYield
    \/ IpNoYield
    \/ IpReturn

SpecPartition == PartInit /\ [][PartNext]_vars

\* --------------------------------------------------------- simplify_vtt
\* caption.text of the cues the model feeds in: one line, several lines, empty
\* and whitespace-only lines inside and at the ends.
CueTexts == {"", "A", "B", " A\n", "A\nB", "B\nA", "A\nA", "A\n\nA", "A\n\nB", "A\n \nB"}
\* vtt.captions: the k-th cue starts at time k and ends at time k (times are
\* named by the cue they come from; the function only copies them).
CueLists ==
    UNION {[1..n -> {[text |-> t] : t \in CueTexts}] : n \in 0..MaxCues}

\* str.splitlines(), for the line break "\n"
RECURSIVE SplitLines(_)
SplitLines(s) ==
    IF s = "" THEN << >>
    ELSE IF \A i \in 1..Len(s) : CharAt(s, i) # "\n" THEN <<s>>
    ELSE LET brk == CHOOSE i \in 1..Len(s) :
                        CharAt(s, i) = "\n" /\ \A j \in 1..(i - 1) : CharAt(s, j) # "\n"
         IN <<SubSeq(s, 1, brk - 1)>> \o SplitLines(SubSeq(s, brk + 1, Len(s)))

\* Fault variant of NotLine: no line is skipped.
NotLineNever(line) == FALSE
\* Line 27, `not line`: the empty string is the only falsy line.
NotLine(line) == line = ""

\* Lines 22-23 on a cue list: nothing read, nothing written, last_line = None
\* (the empty list stands for None, <<line>> for a line).
VttInit ==
    /\ ClientAtRest
    /\ Off({"vtt"})
    /\ \E cues \in CueLists : vtt = [NoVtt EXCEPT !.pc = "captions", !.cues = cues]

\* Lines 24-25: the next caption, its text stripped and split into lines.
VttNextCaption ==
    /\ vtt.pc = "captions"
    /\ vtt.lines = << >>
    /\ vtt.pos < Len(vtt.cues)
    /\ vtt' = [vtt EXCEPT !.pos = @ + 1,
                          !.lines = SplitLines(Strip(vtt.cues[vtt.pos + 1].text))]
    /\ UNCHANGED nonVttVars

\* Lines 26-28: a line that is the empty string is passed over.
VttSkipLine ==
    /\ vtt.pc = "captions"
    /\ vtt.lines # << >>
    /\ NotLine(Head(vtt.lines))
    /\ vtt' = [vtt EXCEPT !.lines = Tail(@)]
    /\ UNCHANGED nonVttVars

\* Lines 29-32: a line equal to the last one written stretches the last output
\* cue to the end of the caption being read.
VttExtend ==
    /\ vtt.pc = "captions"
    /\ vtt.lines # << >>
    /\ ~NotLine(Head(vtt.lines))
    /\ vtt.last_line = <<Head(vtt.lines)>>
    /\ vtt' = [vtt EXCEPT !.lines = Tail(@),
                          !.simplified = IF @ # << >>
                                         THEN [@ EXCEPT ![Len(@)].end = vtt.pos]
                                         ELSE @]
    /\ UNCHANGED nonVttVars

\* Fault variant of VttAppend: the line written is not remembered as the last one.
VttAppendForgetful ==
    /\ vtt.pc = "captions"
    /\ vtt.lines # << >>
    /\ ~NotLine(Head(vtt.lines))
    /\ vtt.last_line # <<Head(vtt.lines)>>
    /\ vtt' = [vtt EXCEPT !.lines = Tail(@),
                          !.simplified = Append(@, [start |-> vtt.pos, end |-> vtt.pos,
                                                    text |-> Head(vtt.lines)])]
    /\ UNCHANGED nonVttVars

\* Lines 33-34: any other line becomes an output cue with the caption's times.
VttAppend ==
    /\ vtt.pc = "captions"
    /\ vtt.lines # << >>
    /\ ~NotLine(Head(vtt.lines))
    /\ vtt.last_line # <<Head(vtt.lines)>>
    /\ vtt' = [vtt EXCEPT !.lines = Tail(@),
                          !.simplified = Append(@, [start |-> vtt.pos, end |-> vtt.pos,
                                                    text |-> Head(vtt.lines)]),
                          !.last_line = <<Head(vtt.lines)>>]
    /\ UNCHANGED nonVttVars

\* Lines 40-41: the captions are used up, the output cues are written out.
VttReturn ==
    /\ vtt.pc = "captions"
    /\ vtt.lines = << >>
    /\ vtt.pos = Len(vtt.cues)
    /\ vtt' = [vtt EXCEPT !.pc = "returned"]
    /\ UNCHANGED nonVttVars

VttNext == VttNextCaption \/ VttSkipLine \/ VttExtend \/ VttAppend \/ VttReturn
SpecVtt == VttInit /\ [][VttNext]_vars

\* -------------------------------------------------------------- parsers
\* Text as the platform may deliver it: clean, padded with whitespace, holding NULs.
TextValues == {"a", " a", "a ", "a@", "@a b@ ", "\ta"}
Parsers == {"category", "channel", "playlist", "video", "comment", "livechat"}

\* The raw documents handed to each parser, cut down to the fields the model
\* follows. A video comes as a resource of the videos endpoint, as an item of a
\* playlist (whose own id is not the video's), as a search result (whose id is
\* a dict), or, by mistake, as a resource of another kind.
RawItems(parser) ==
    CASE parser = "video" ->
           UNION {{[kind |-> "youtube#video", id |-> PyStr(v),
                    snippet |-> [title |-> PyStr(t), channelId |-> PyStr("c1"),
                                 tags |-> PyList(<<PyStr(t), PyStr("a")>>)],
                    status |-> [privacyStatus |-> PyStr("public")]],
                   [kind |-> "youtube#playlistItem", id |-> PyStr("item of " \o v),
                    snippet |-> [title |-> PyStr(t), channelId |-> PyStr("c1"),
                                 videoOwnerChannelId |-> PyStr("c2"),
                                 resourceId |-> [kind |-> "youtube#video", videoId |-> PyStr(v)]]],
                   [kind |-> "youtube#searchResult",
                    id |-> [kind |-> "youtube#video", videoId |-> PyStr(v)],
                    snippet |-> [title |-> PyStr(t), channelId |-> PyStr("c1")]],
                   [kind |-> "youtube#channel", id |-> PyStr(v),
                    snippet |-> [title |-> PyStr(t)]]} : v \in VideoIds, t \in TextValues}
      [] parser = "category" ->
           {[id |-> PyStr("1"), snippet |-> [title |-> PyStr(t), channelId |-> PyStr(u)]] :
               t, u \in TextValues}
      [] parser = "comment" ->
           {[id |-> PyStr("m1"),
             snippet |-> [videoId |-> PyStr("v1"), textOriginal |-> PyStr(t),
                          authorDisplayName |-> PyStr(u)]] : t, u \in TextValues}
      [] parser = "livechat" ->
           {[message_id |-> PyStr("m1"), message |-> PyStr(t), author |-> [name |-> PyStr(u)]] :
               t, u \in TextValues}
      [] OTHER ->
           {[id |-> PyStr(t), snippet |-> [title |-> PyStr(u)]] : t, u \in TextValues}

\* parse_category_data, lines 126-133
parse_category_data(item) ==
    [title |-> item["snippet"]["title"], channel_id |-> item["snippet"]["channelId"]]
\* parse_playlist_data, lines 154-166
parse_playlist_data(item) == [id |-> item["id"], title |-> Get(item["snippet"], "title")]
\* parse_comment_data, lines 239-253
parse_comment_data(item, replies) ==
    [id |-> item["id"], video_id |-> item["snippet"]["videoId"],
     text |-> item["snippet"]["textOriginal"], author |-> item["snippet"]["authorDisplayName"],
     replies |-> replies]
\* The dict video_livechat yields for a message, lines 474-487
chat_message(message, video) ==
    [id |-> message["message_id"], video_id |-> PyStr(video),
     author |-> message["author"]["name"], text |-> message["message"]]

ParseInit ==
    /\ ClientAtRest
    /\ Off({"ps"})
    /\ \E parser \in Parsers : \E item \in RawItems(parser) :
          ps = [NoPs EXCEPT !.pc = "call", !.parser = parser, !.item = item]

\* The parser returns its record.
ParseReturn ==
    /\ ps.pc = "call"
    /\ ps.parser = "video" => ps.item["kind"] \in KnownKinds
    /\ ps' = [ps EXCEPT !.pc = "returned",
                        !.out = CASE ps.parser = "category" -> parse_category_data(ps.item)
                                  [] ps.parser = "channel" -> parse_channel_data(ps.item)
                                  [] ps.parser = "playlist" -> parse_playlist_data(ps.item)
                                  [] ps.parser = "video" -> parse_video_data(ps.item)
                                  [] ps.parser = "comment" -> parse_comment_data(ps.item, PyInt(0))
                                  [] ps.parser = "livechat" -> chat_message(ps.item, "v1")]
    /\ UNCHANGED nonPsVars

\* parse_video_data, lines 205-206: no record for a kind it does not know.
ParseRaise ==
    /\ ps.pc = "call"
    /\ ps.parser = "video"
    /\ ps.item["kind"] \notin KnownKinds
    /\ ps' = [ps EXCEPT !.pc = "raised", !.raised = UnknownKindError(ps.item)]
    /\ UNCHANGED nonPsVars

ParseNext == ParseReturn \/ ParseRaise
SpecParse == ParseInit /\ [][ParseNext]_vars

\* ------------------------------------------- scripts/channel_data.py
\* Fault variant of ThreadComments: the replies come before their comment.
ThreadCommentsRepliesFirst(item) ==
    (IF "replies" \in DOMAIN item
     THEN [i \in DOMAIN item["replies"]["comments"] |->
              parse_comment_data(item["replies"]["comments"][i], PyNone)]
     ELSE << >>)
    \o <<parse_comment_data(item["snippet"]["topLevelComment"], item["snippet"]["totalReplyCount"])>>
\* video_comments, lines 447-453: what the generator yields for one thread
ThreadComments(item) ==
    <<parse_comment_data(item["snippet"]["topLevelComment"], item["snippet"]["totalReplyCount"])>>
    \o (IF "replies" \in DOMAIN item
        THEN [i \in DOMAIN item["replies"]["comments"] |->
                 parse_comment_data(item["replies"]["comments"][i], PyNone)]
        ELSE << >>)
\* comment_writer.writerow for every comment of the threads paginate has yielded
RECURSIVE WriteRows(_, _)
WriteRows(rows, threads) ==
    IF threads = << >> THEN rows
    ELSE WriteRows(rows \o ThreadComments(Head(threads)), Tail(threads))

VideoLists2 == UNION {[1..n -> VideoIds] : n \in 0..MaxVideos}
\* Line 103 on: the client is built from the credentials of the command line,
\* video_ids is the list collected from the playlists; the platform accepts
\* some credentials, and some videos have comments or chat switched off.
HarvestInit ==
    /\ \E keys \in KeyLists : ClientIdle(keys)
    /\ Off({"hv", "env"})
    /\ \E working \in SUBSET {KeyNames[i] : i \in 1..MaxKeys}, disabled, nochat \in SUBSET VideoIds :
          env = [mode |-> "platform", working |-> working, disabled |-> disabled,
                 nochat |-> nochat]
    /\ \E videos \in VideoLists2 : hv = [NoHv EXCEPT !.pc = "comments", !.videos = videos]

\* Lines 163-165 and 449: the comments of the next video are asked for.
HarvestComments ==
    /\ hv.pc = "comments"
    /\ pc = "idle"
    /\ hv.pos < Len(hv.videos)
    /\ hv' = [hv EXCEPT !.pos = @ + 1]
    /\ LET p == [part |-> "id,replies,snippet", videoId |-> hv.videos[hv.pos + 1]]
       IN /\ pag' = [path |-> "commentThreads", params |-> p, given |-> p]
          /\ RequestBegin("paginate", "commentThreads", p)
    /\ UNCHANGED <<response, pages, genVars, ciVars, vi, env, sideVars>>

\* Lines 164-165 at the end of a video's comments: every comment was written.
HarvestVideoDone ==
    /\ hv.pc = "comments"
    /\ pc = "done"
    /\ hv' = [hv EXCEPT !.written = WriteRows(@, yielded)]
    /\ pc' = "idle"
    /\ pag' = NoPag
    /\ response' = NoData
    /\ pages' = << >>
    /\ yielded' = << >>
    /\ idx' = 0
    /\ UNCHANGED <<clientVars, calls, caller, reqVars, result, raised, ciVars, vi, env, sideVars>>

\* Lines 166-167, `except RuntimeError: continue`: the comments written before
\* the error stay written, the loop goes on with the next video.
HarvestCatch ==
    /\ hv.pc = "comments"
    /\ pc = "raised"
    /\ raised.type = "RuntimeError"
    /\ hv' = [hv EXCEPT !.written = WriteRows(@, yielded),
                        !.caught = @ + 1,
                        !.exhausted_at = IF @ = 0 THEN Len(calls) ELSE @]
    /\ pc' = "idle"
    /\ raised' = NoError
    /\ pag' = NoPag
    /\ response' = NoData
    /\ pages' = << >>
    /\ yielded' = << >>
    /\ idx' = 0
    /\ UNCHANGED <<clientVars, calls, caller, reqVars, result, ciVars, vi, env, sideVars>>

\* Lines 168-177: the comment file is closed; the transcriptions are
\* downloaded without the API (videos_transcriptions swallows every error).
HarvestCommentsEnd ==
    /\ hv.pc = "comments"
    /\ pc = "idle"
    /\ hv.pos = Len(hv.videos)
    /\ hv' = [hv EXCEPT !.pc = "livechat"]
    /\ UNCHANGED <<apiVars, vi, env, sideVars>>

\* Lines 180-183: the chat of the next video is written.
HarvestChat ==
    /\ hv.pc = "livechat"
    /\ hv.chat_pos < Len(hv.videos)
    /\ hv.videos[hv.chat_pos + 1] \notin env.nochat
    /\ hv' = [hv EXCEPT !.chat_pos = @ + 1, !.chat = Append(@, hv.videos[hv.chat_pos + 1])]
    /\ UNCHANGED <<apiVars, vi, env, sideVars>>

\* Lines 184-185: LoginRequired, NoChatReplay or ChatDisabled skips the video.
HarvestChatSkip ==
    /\ hv.pc = "livechat"
    /\ hv.chat_pos < Len(hv.videos)
    /\ hv.videos[hv.chat_pos + 1] \in env.nochat
    /\ hv' = [hv EXCEPT !.chat_pos = @ + 1]
    /\ UNCHANGED <<apiVars, vi, env, sideVars>>

\* Line 186: the script ends.
HarvestEnd ==
    /\ hv.pc = "livechat"
    /\ hv.chat_pos = Len(hv.videos)
    /\ hv' = [hv EXCEPT !.pc = "closed"]
    /\ UNCHANGED <<apiVars, vi, env, sideVars>>

HarvestNext ==
    \/ HarvestComments
    \/ RequestRetry
    \/ RequestExhausted
    \/ RequestReturn
    \/ PaginateYield
    \/ PaginateStop
    \/ PaginateNextPage
    \/ HarvestVideoDone
    \/ HarvestCatch
    \/ HarvestCommentsEnd
    \/ HarvestChat
    \/ HarvestChatSkip
    \/ HarvestEnd
SpecHarvest == HarvestInit /\ [][HarvestNext]_vars

\* ------------------------------------------------ videos_transcriptions
\* Line 510, language_code.lower(), on the codes the model passes in.
Lower(code) == IF code = "EN" THEN "en" ELSE code
\* Line 515: the file the downloader writes for a video, "<id>.<code>.vtt"
\* under the destination directory.
FileName(video, code) == video \o "." \o code \o ".vtt"
\* Fault variant of Exists: no file is ever found.
ExistsNever(files, filename) == FALSE
\* Line 516: Path(filename).exists()
Exists(files, filename) == filename \in files

\* A call on a destination directory that may already hold files, written for
\* either spelling of the language code.
TrInit ==
    /\ ClientAtRest
    /\ Off({"tr"})
    /\ \E ids \in UNION {[1..n -> VideoIds] : n \in 0..MaxTrIds},
          lang \in {"en", "EN"}, skip \in BOOLEAN, size \in 1..MaxBatch,
          files \in SUBSET {FileName(v, c) : v \in VideoIds, c \in {"en", "EN"}} :
          tr = [NoTr EXCEPT !.pc = "loop", !.ids = ids, !.lang = lang, !.skip = skip,
                            !.size = size, !.files = files, !.files0 = files]

\* Lines 514-517: a video whose file exists is passed over.
TrSkip ==
    /\ tr.pc = "loop"
    /\ tr.pos < Len(tr.ids)
    /\ tr.skip /\ Exists(tr.files, FileName(tr.ids[tr.pos + 1], Lower(tr.lang)))
    /\ tr' = [tr EXCEPT !.pos = @ + 1, !.skipped = @ \cup {tr.pos + 1}]
    /\ UNCHANGED nonTrVars

\* Lines 514-519: any other video goes into the batch; a full batch is due.
TrAppend ==
    /\ tr.pc = "loop"
    /\ tr.pos < Len(tr.ids)
    /\ ~(tr.skip /\ Exists(tr.files, FileName(tr.ids[tr.pos + 1], Lower(tr.lang))))
    /\ LET batch == Append(tr.batch, "https://www.youtube.com/watch?v=" \o tr.ids[tr.pos + 1])
       IN tr' = [tr EXCEPT !.pos = @ + 1, !.batch = batch,
                           !.pc = IF Len(batch) = tr.size THEN "full" ELSE "loop"]
    /\ UNCHANGED nonTrVars

\* Fault variant of TrDownload: the downloader's exception leaves the call.
TrDownloadRaising ==
    /\ \/ tr.pc = "full"
       \/ tr.pc = "loop" /\ tr.pos = Len(tr.ids) /\ tr.batch # << >>
    /\ \E failed \in BOOLEAN :
       \E written \in SUBSET {FileName(tr.ids[i], Lower(tr.lang)) : i \in 1..tr.pos} :
          /\ \A f \in written :
                \E i \in 1..Len(tr.batch), v \in VideoIds :
                    /\ tr.batch[i] = "https://www.youtube.com/watch?v=" \o v
                    /\ f = FileName(v, Lower(tr.lang))
          /\ tr' = [tr EXCEPT !.files = @ \cup written,
                              !.submitted = Append(@, [urls |-> tr.batch, found |-> tr.files,
                                                       failed |-> failed]),
                              !.errors = IF failed THEN 1 ELSE @,
                              !.batch = << >>,
                              !.pc = IF tr.pc = "full" /\ ~failed THEN "loop" ELSE "returned"]
    /\ UNCHANGED nonTrVars

\* Lines 520-524 and 525-529, ydl.download(batch): the downloader writes the
\* files of some of the batch's videos and may fail on the way; the exception
\* is swallowed. `submitted` logs each batch with the directory as it found it
\* and whether the download failed; `skipped` logs the places passed over.
TrDownload ==
    /\ \/ tr.pc = "full"
       \/ tr.pc = "loop" /\ tr.pos = Len(tr.ids) /\ tr.batch # << >>
    /\ \E failed \in BOOLEAN :
       \E written \in SUBSET {FileName(tr.ids[i], Lower(tr.lang)) : i \in 1..tr.pos} :
          /\ \A f \in written :
                \E i \in 1..Len(tr.batch), v \in VideoIds :
                    /\ tr.batch[i] = "https://www.youtube.com/watch?v=" \o v
                    /\ f = FileName(v, Lower(tr.lang))
          /\ tr' = [tr EXCEPT !.files = @ \cup written,
                              !.submitted = Append(@, [urls |-> tr.batch, found |-> tr.files,
                                                       failed |-> failed]),
                              !.errors = IF failed THEN 1 ELSE @,
                              !.batch = << >>,
                              !.pc = IF tr.pc = "full" THEN "loop" ELSE "returned"]
    /\ UNCHANGED nonTrVars

\* Line 525 with an empty batch: nothing is left to submit.
TrReturn ==
    /\ tr.pc = "loop"
    /\ tr.pos = Len(tr.ids)
    /\ tr.batch = << >>
    /\ tr' = [tr EXCEPT !.pc = "returned"]
    /\ UNCHANGED nonTrVars

\* The same call is made again on the directory as the last run left it.
TrRerun ==
    /\ tr.pc = "returned"
    /\ tr.run < MaxRuns
    /\ tr' = [tr EXCEPT !.pc = "loop", !.pos = 0, !.submitted = << >>, !.errors = 0,
                        !.skipped = {},
                        !.files0 = tr.files, !.run = @ + 1]
    /\ UNCHANGED nonTrVars

TrNext == TrSkip \/ TrAppend \/ TrDownload \/ TrReturn \/ TrRerun
SpecTr == TrInit /\ [][TrNext]_vars

\* ------------------------------------------------------------- cli.main
\* The subcommands main() declares (lines 13-19).
Commands == {"channel-id", "channel-info", "video-info", "video-search",
             "video-comments", "video-livechat", "video-transcription"}

\* `python -m youtool.cli [--api-key K] <command> ...` with or without
\* YOUTUBE_API_KEY in the environment; "None" is an absent value.
CliInit ==
    /\ ClientAtRest
    /\ Off({"cli"})
    /\ \E command \in Commands, flag \in {"None", "k1", "k2"}, environ \in {"None", "k1", "k2"} :
          cli = [NoCli EXCEPT !.pc = "main", !.command = command, !.flag = flag,
                              !.environ = environ]

\* Lines 7-9: the parser and its subparsers are built; `bound` is the set of
\* local names of main() that hold a value.
CliParser ==
    /\ cli.pc = "main"
    /\ cli' = [cli EXCEPT !.pc = "line11", !.bound = {"parser", "subparsers"}]
    /\ UNCHANGED nonCliVars

\* Line 11: args.api_key is read.  `args` is a local name of main(), assigned
\* on line 21 only, so the read raises UnboundLocalError; were it bound, the
\* key would be the flag's value or else the environment's.
CliApiKey ==
    /\ cli.pc = "line11"
    /\ cli' = IF "args" \in cli.bound
              THEN [cli EXCEPT !.pc = "line13", !.bound = @ \cup {"api_key"}]
              ELSE [cli EXCEPT !.pc = "raised", !.raised = "UnboundLocalError"]
    /\ UNCHANGED nonCliVars

\* Lines 157-158: an exception that leaves main() ends the interpreter with a
\* traceback on stderr and exit status 1.
CliExit ==
    /\ cli.pc = "raised"
    /\ cli' = [cli EXCEPT !.pc = "exited", !.status = 1,
                          !.stderr = "Traceback: " \o cli.raised]
    /\ UNCHANGED nonCliVars

CliNext == CliParser \/ CliApiKey \/ CliExit
SpecCli == CliInit /\ [][CliNext]_vars

\* ---------------------------------------------------- commands: execute
\* Python's truth value of an argument that is None or a list.
Truthy(x) == IF x = PyNone THEN FALSE ELSE x.v # << >>
\* What execute() ends with: the exception raised, if any, and the number of
\* API requests, scrapes and downloads it issued before.
Raise(error, work) == [raised |-> error, work |-> work]
Done(work) == [raised |-> "None", work |-> work]
\* The input file argument: None, a path that is no file, or a CSV file with
\* an id column, a URL column, both or neither, and its rows.
InputFiles ==
    {PyNone, [exists |-> FALSE, cols |-> {}, rows |-> 0]}
    \cup {[exists |-> TRUE, cols |-> c, rows |-> n] : c \in SUBSET {"id", "url"}, n \in 0..MaxRows}

\* Fault variant of MissingInput: the test never fires.
MissingInputNever(ids, urls) == FALSE
\* `if not ids and not urls:` (video_info.py line 92 and its likes)
MissingInput(ids, urls) == ~Truthy(ids) /\ ~Truthy(urls)

\* ChannelId.execute, lines 111-138, with urls_from_file, lines 44-54.
ChannelIdExecute(a) ==
    IF Truthy(a.urls) THEN Done(Len(a.urls.v))
    ELSE IF a.file = PyNone THEN Raise("TypeError", 0)
    ELSE IF ~a.file.exists THEN Raise("Exception", 0)
    ELSE IF a.file.rows = 0 THEN Raise("Exception", 0)
    ELSE IF "url" \notin a.file.cols THEN Raise("TypeError", 0)
    ELSE Done(a.file.rows)

\* ChannelInfo.execute, lines 91-127; a.ids are the usernames. The class has
\* no data_from_file, which lines 107 and 109 call.
ChannelInfoExecute(a) ==
    IF a.file # PyNone /\ ~Truthy(a.urls) THEN Raise("AttributeError", 0)
    ELSE IF MissingInput(a.urls, a.ids) THEN Raise("Exception", 0)
    ELSE Done((IF Truthy(a.urls) THEN Len(a.urls.v) ELSE 0)
              + (IF Truthy(a.ids) THEN Len(a.ids.v) ELSE 0))

\* VideoInfo.execute, lines 71-113: the rows of the file are appended to ids
\* (or else to urls), which fails on None; URLs are not implemented.
VideoInfoExecute(a) ==
    LET col == IF a.file = PyNone THEN "none"
               ELSE IF "id" \in a.file.cols THEN "id"
               ELSE IF "url" \in a.file.cols THEN "url" ELSE "none"
        rows == IF a.file = PyNone THEN 0 ELSE a.file.rows
        target == IF col = "id" THEN a.ids ELSE a.urls
        add(x, c) == IF col = c /\ rows > 0
                     THEN PyList(x.v \o [i \in 1..rows |-> "v2"]) ELSE x
    IN IF a.file # PyNone /\ ~a.file.exists THEN Raise("FileNotFoundError", 0)
       ELSE IF col # "none" /\ rows > 0 /\ target = PyNone THEN Raise("AttributeError", 0)
       ELSE IF MissingInput(add(a.ids, "id"), add(a.urls, "url")) THEN Raise("Exception", 0)
       ELSE LET work == IF Truthy(add(a.ids, "id")) THEN 1 ELSE 0
            IN IF Truthy(add(a.urls, "url")) THEN Raise("NotImplementedError", work)
               ELSE Done(work)

\* VideoSearch.execute, lines 69-107: the same steps as VideoInfo.execute (the
\* cells of the model's files are never empty).
VideoSearchExecute(a) == VideoInfoExecute(a)

\* VideoTranscription.execute, lines 43-76: the client is built first, which
\* issues nothing; data_from_csv takes two arguments and is called with three.
VideoTranscriptionExecute(a) ==
    IF a.file # PyNone THEN Raise("TypeError", 0)
    ELSE IF MissingInput(a.ids, a.urls) THEN Raise("Exception", 0)
    ELSE Done(1)

\* A command's execute() is called with the identifiers, URLs and input file
\* of the command line.
CmdInit ==
    /\ ClientAtRest
    /\ Off({"cli"})
    /\ \E command \in Commands \ {"video-comments", "video-livechat"},
          ids, urls \in {PyNone, PyList(<< >>), PyList(<<"v1">>)}, file \in InputFiles :
          cli = [NoCli EXCEPT !.pc = "execute", !.command = command, !.ids = ids,
                              !.urls = urls, !.file = file]

\* execute() runs until it returns or raises.
CmdExecute ==
    /\ cli.pc = "execute"
    /\ LET a == [ids |-> cli.ids, urls |-> cli.urls, file |-> cli.file]
           out == CASE cli.command = "channel-id" -> ChannelIdExecute(a)
                    [] cli.command = "channel-info" -> ChannelInfoExecute(a)
                    [] cli.command = "video-info" -> VideoInfoExecute(a)
                    [] cli.command = "video-search" -> VideoSearchExecute(a)
                    [] cli.command = "video-transcription" -> VideoTranscriptionExecute(a)
       IN cli' = [cli EXCEPT !.pc = IF out.raised = "None" THEN "returned" ELSE "raised",
                             !.raised = out.raised, !.work = out.work]
    /\ UNCHANGED nonCliVars

SpecCmd == CmdInit /\ [][CmdExecute]_vars

\* ------------------------------------------------------------ data_to_csv
\* A record is a Python dict, whose keys keep their order: a sequence of
\* [k, v] pairs with distinct keys.
\* A number is held by its decimal digits here.
FieldValues == {PyStr("a,b"), [t |-> "int", v |-> "1"], PyNone}
Records ==
    {<<[k |-> f, v |-> x]>> : f \in {"id", "name"}, x \in FieldValues}
    \cup {<<[k |-> f, v |-> x], [k |-> g, v |-> y]>> :
             <<f, g>> \in {<<"id", "name">>, <<"name", "id">>}, x, y \in FieldValues}
\* list(record.keys())
Keys(record) == [i \in DOMAIN record |-> record[i].k]
HasKey(record, f) == \E i \in DOMAIN record : record[i].k = f
Value(record, f) == record[CHOOSE i \in DOMAIN record : record[i].k = f].v

\* The text the csv writer puts in a cell: nothing for None, str() of a
\* number, and a string in quotes when it holds the delimiter.
Cell(value) ==
    IF value = PyNone THEN ""
    ELSE IF value.t = "int" THEN value.v
    ELSE IF \E i \in 1..Len(value.v) : CharAt(value.v, i) = "," THEN "\"" \o value.v \o "\""
    ELSE value.v
RECURSIVE JoinCells(_)
JoinCells(cells) ==
    IF cells = << >> THEN ""
    ELSE IF Len(cells) = 1 THEN Head(cells)
    ELSE Head(cells) \o "," \o JoinCells(Tail(cells))
\* A line of the CSV text, without its terminator; a lone empty cell is quoted.
Line(cells) == IF cells = <<"">> THEN "\"\"" ELSE JoinCells(cells)
\* Fault variant of RowOf: every row is written from the first record.
RowOfFirst(fieldnames, records, i) ==
    Line([j \in DOMAIN fieldnames |->
             IF HasKey(records[1], fieldnames[j]) THEN Cell(Value(records[1], fieldnames[j])) ELSE ""])
\* DictWriter's row for records[i]: the fields in header order, a missing one empty.
RowOf(fieldnames, records, i) ==
    Line([j \in DOMAIN fieldnames |->
             IF HasKey(records[i], fieldnames[j]) THEN Cell(Value(records[i], fieldnames[j])) ELSE ""])
\* DictWriter refuses a record with a field that is no fieldname.
Extra(fieldnames, record) ==
    \E i \in DOMAIN record : \A j \in DOMAIN fieldnames : fieldnames[j] # record[i].k
\* Line 141: the fieldnames are the first record's keys.
Fieldnames(records) == IF records = << >> THEN << >> ELSE Keys(records[1])
\* Lines 141-143: the header and the rows written, as lines, up to the first
\* record the writer refuses.
Written(records) ==
    LET bad == {i \in DOMAIN records : Extra(Fieldnames(records), records[i])}
        last == IF bad = {} THEN Len(records)
                ELSE (CHOOSE i \in bad : \A j \in bad : i <= j) - 1
    IN <<Line([j \in DOMAIN Fieldnames(records) |-> Fieldnames(records)[j]])>>
       \o [i \in 1..last |-> RowOf(Fieldnames(records), records, i)]
\* Lines 133-138: where the text goes. "out" is a directory; a path that is a
\* directory gets a file named after the command and the time.
Target(output_file_path) ==
    IF output_file_path = PyNone \/ output_file_path = PyStr("") THEN PyNone
    ELSE IF output_file_path = PyStr("out") THEN PyStr("out/command_name_timestamp.csv")
    ELSE output_file_path

CsvInit ==
    /\ ClientAtRest
    /\ Off({"ps"})
    /\ \E records \in UNION {[1..n -> Records] : n \in 0..MaxRecords},
          output_file_path \in {PyNone, PyStr(""), PyStr("out"), PyStr("out.csv")} :
          ps = [NoPs EXCEPT !.pc = "call", !.parser = "data_to_csv",
                            !.item = [data |-> records, output_file_path |-> output_file_path,
                                      files |-> EmptyDict]]

\* Lines 140-144: everything is written; the path or the text is returned.
CsvReturn ==
    /\ ps.pc = "call"
    /\ \A i \in DOMAIN ps.item.data : ~Extra(Fieldnames(ps.item.data), ps.item.data[i])
    /\ LET target == Target(ps.item.output_file_path)
       IN ps' = [ps EXCEPT !.pc = "returned",
                           !.item.files = IF target = PyNone THEN @
                                          ELSE SetItem(@, target.v, Written(ps.item.data)),
                           !.out = IF target = PyNone
                                   THEN [t |-> "text", v |-> Written(ps.item.data)]
                                   ELSE target]
    /\ UNCHANGED nonPsVars

\* Line 143: writerows raises ValueError at a record with an unknown field;
\* the file, if any, keeps what was written before.
CsvRaise ==
    /\ ps.pc = "call"
    /\ \E i \in DOMAIN ps.item.data : Extra(Fieldnames(ps.item.data), ps.item.data[i])
    /\ LET target == Target(ps.item.output_file_path)
       IN ps' = [ps EXCEPT !.pc = "raised",
                           !.item.files = IF target = PyNone THEN @
                                          ELSE SetItem(@, target.v, Written(ps.item.data)),
                           !.raised = [type |-> "ValueError"]]
    /\ UNCHANGED nonPsVars

SpecCsv == CsvInit /\ [][CsvReturn \/ CsvRaise]_vars

\* ------------------------------- parse_int, parse_decimal, parse_datetime
\* A scalar as the parsers may receive it: None, a string, or a number held by
\* the text str() gives for it.
Falsy(value) ==
    \/ value = PyNone
    \/ value \in {PyStr(""), [t |-> "int", v |-> "0"], [t |-> "float", v |-> "0.0"]}
\* Lines 69, 88 and 103: str(value or "").strip()
StrOrEmpty(value) == IF Falsy(value) THEN "" ELSE Strip(value.v)

IsDigits(s) == \A i \in 1..Len(s) : \E d \in 0..9 : CharAt(s, i) = CharAt("0123456789", d + 1)
RECURSIVE Num(_)
Num(s) ==
    IF s = "" THEN 0
    ELSE 10 * Num(SubSeq(s, 1, Len(s) - 1))
         + (CHOOSE d \in 0..9 : CharAt(s, Len(s)) = CharAt("0123456789", d + 1))
Unsigned(s) == IF s # "" /\ CharAt(s, 1) \in {"+", "-"} THEN SubSeq(s, 2, Len(s)) ELSE s
\* int(text): a sign and digits, or ValueError ("invalid").
IntOf(text) ==
    IF Unsigned(text) # "" /\ IsDigits(Unsigned(text))
    THEN [t |-> "int", v |-> IF CharAt(text, 1) = "-" THEN 0 - Num(Unsigned(text))
                             ELSE Num(Unsigned(text))]
    ELSE [t |-> "invalid"]
\* Decimal(text): a sign, digits and at most one point; the digits are kept as
\* written. Anything else is decimal.InvalidOperation ("invalid").
DecimalOf(text) ==
    LET u == Unsigned(text)
        points == {i \in 1..Len(u) : CharAt(u, i) = "."}
    IN IF /\ Cardinality(points) <= 1
          /\ Len(u) > Cardinality(points)
          /\ \A i \in (1..Len(u)) \ points : IsDigits(CharAt(u, i))
       THEN [t |-> "Decimal", v |-> text]
       ELSE [t |-> "invalid"]

\* parse_int, lines 60-72
parse_int(value) == IF StrOrEmpty(value) = "" THEN PyNone ELSE IntOf(StrOrEmpty(value))
\* parse_decimal, lines 75-91
parse_decimal(value) == IF StrOrEmpty(value) = "" THEN PyNone ELSE DecimalOf(StrOrEmpty(value))

\* The %z directive takes "Z", or a sign, two digits of hours, an optional
\* colon and two digits of minutes.
ZoneDigits(zone) ==
    IF Len(zone) = 6 /\ CharAt(zone, 4) = ":" THEN SubSeq(zone, 2, 3) \o SubSeq(zone, 5, 6)
    ELSE IF Len(zone) = 5 THEN SubSeq(zone, 2, 5) ELSE ""
IsZone(zone) ==
    IF zone = "Z" THEN TRUE
    ELSE /\ ZoneDigits(zone) # "" /\ IsDigits(ZoneDigits(zone)) /\ CharAt(zone, 1) \in {"+", "-"}
         /\ Num(SubSeq(ZoneDigits(zone), 3, 4)) < 60
\* Fault variant of UtcOffset: the zone designator is read as one hour east.
UtcOffsetEast(zone) == 60
\* The offset from UTC, in minutes, a zone designator stands for.
UtcOffset(zone) ==
    IF zone = "Z" THEN 0
    ELSE (IF CharAt(zone, 1) = "-" THEN 0 - 1 ELSE 1)
         * (60 * Num(SubSeq(ZoneDigits(zone), 1, 2)) + Num(SubSeq(ZoneDigits(zone), 3, 4)))
\* datetime.strptime(text, "%Y-%m-%dT%H:%M:%S%z") on texts whose fields have
\* two digits (four for the year): the aware datetime, or ValueError ("invalid").
Strptime(text) ==
    LET f(a, b) == SubSeq(text, a, b)
    IN IF /\ Len(text) > 19
          /\ IsDigits(f(1, 4) \o f(6, 7) \o f(9, 10) \o f(12, 13) \o f(15, 16) \o f(18, 19))
          /\ f(5, 5) = "-" /\ f(8, 8) = "-" /\ f(11, 11) \in {"T", "t"}
          /\ f(14, 14) = ":" /\ f(17, 17) = ":"
          /\ Num(f(6, 7)) \in 1..12 /\ Num(f(9, 10)) \in 1..31
          /\ Num(f(12, 13)) < 24 /\ Num(f(15, 16)) < 60 /\ Num(f(18, 19)) < 62
          /\ IsZone(f(20, Len(text)))
       THEN [t |-> "datetime", year |-> Num(f(1, 4)), month |-> Num(f(6, 7)),
             day |-> Num(f(9, 10)), hour |-> Num(f(12, 13)), minute |-> Num(f(15, 16)),
             second |-> Num(f(18, 19)), utcoffset |-> UtcOffset(f(20, Len(text)))]
       ELSE [t |-> "invalid"]
\* parse_datetime, lines 94-108
parse_datetime(value) ==
    LET text == StrOrEmpty(value)
    IN IF text = "" THEN PyNone
       ELSE IF CharAt(text, Len(text)) = "Z"
            THEN Strptime(SubSeq(text, 1, Len(text) - 1) \o "+00:00")
            ELSE Strptime(text)

\* The numbers and numerals handed to parse_int and parse_decimal.
Scalars ==
    {PyNone}
    \cup {PyStr(x) : x \in {"", " ", "0", "7", " 7", "-7", "007", "3.14", "3.0", "x", "7 "}}
    \cup {[t |-> "int", v |-> x] : x \in {"0", "7", "-7"}}
    \cup {[t |-> "float", v |-> x] : x \in {"0.0", "3.0", "3.14"}}
\* The timestamps handed to parse_datetime: a date and time, what follows it,
\* and padding around both.
StampDates == {"2022-01-15T01:02:03", "1999-12-31T23:59:59", "2022-13-15T01:02:03",
               "2022-01-15 01:02:03", "x", ""}
StampZones == {"", "Z", "z", "+00:00", "-03:00", "+0530", ".5Z", ".000+00:00"}

ScalarInit ==
    /\ ClientAtRest
    /\ Off({"ps"})
    /\ \/ \E parser \in {"parse_int", "parse_decimal"}, value \in Scalars :
             ps = [NoPs EXCEPT !.pc = "call", !.parser = parser, !.item = [value |-> value]]
       \/ \E date \in StampDates, zone \in StampZones, pad \in {"", " "} :
             ps = [NoPs EXCEPT !.pc = "call", !.parser = "parse_datetime",
                               !.item = [value |-> PyStr(pad \o date \o zone \o pad),
                                         date |-> date, zone |-> zone]]
       \/ ps = [NoPs EXCEPT !.pc = "call", !.parser = "parse_datetime",
                            !.item = [value |-> PyNone, date |-> "", zone |-> ""]]

\* What the parser called computes.
ScalarResult ==
    CASE ps.parser = "parse_int" -> parse_int(ps.item.value)
      [] ps.parser = "parse_decimal" -> parse_decimal(ps.item.value)
      [] ps.parser = "parse_datetime" -> parse_datetime(ps.item.value)
\* The parser returns None or the value parsed.
ScalarReturn ==
    /\ ps.pc = "call"
    /\ ScalarResult # [t |-> "invalid"]
    /\ ps' = [ps EXCEPT !.pc = "returned", !.out = ScalarResult]
    /\ UNCHANGED nonPsVars
\* int() and strptime() raise ValueError, Decimal() raises InvalidOperation.
ScalarRaise ==
    /\ ps.pc = "call"
    /\ ScalarResult = [t |-> "invalid"]
    /\ ps' = [ps EXCEPT !.pc = "raised",
                        !.raised = [type |-> IF ps.parser = "parse_decimal"
                                             THEN "InvalidOperation" ELSE "ValueError"]]
    /\ UNCHANGED nonPsVars

SpecScalar == ScalarInit /\ [][ScalarReturn \/ ScalarRaise]_vars

\* ======================================================================
\* Properties
\* ======================================================================
\* A response the platform marks as a client error: an error code in [400,500).
ClientError(d) ==
    IF "error" \in DOMAIN d THEN d["error"]["code"] \in 400..499 ELSE FALSE
\* Position of the active credential in the list given at construction.
ActivePos == Len(init_keys) - Len(api_keys)
LastCall == calls[Len(calls)]
CallAdded == Len(calls') = Len(calls) + 1

\* ---------------------------------------------------------------- C1
\* C1: credentials are used in the order given at construction, starting with
\* the first; whenever a request gets a response with an error code in [400,500)
\* and a credential is left, request() drops the active credential and issues the
\* same request again (same URL, same parameters but for the key) with the next
\* credential of that order.
C1_Order ==
    /\ ActivePos \in 1..Len(init_keys)
    /\ current_key = init_keys[ActivePos]
    /\ api_keys = SubSeq(init_keys, ActivePos + 1, Len(init_keys))
    /\ discarded = {init_keys[i] : i \in 1..(ActivePos - 1)}
    /\ (discarded = {} /\ calls # << >>) => LastCall.params["key"] = init_keys[1]
C1_Retry ==
    (pc = "request" /\ ClientError(data) /\ api_keys # << >>) =>
        /\ CallAdded
        /\ LastCall'.url = LastCall.url
        /\ Without(LastCall'.params, "key") = Without(LastCall.params, "key")
        /\ LastCall'.params["key"] = init_keys[ActivePos + 1]
        /\ current_key' = init_keys[ActivePos + 1]
        /\ discarded' = discarded \cup {current_key}
C1_KeyRotationInOrder == []C1_Order /\ [][C1_Retry]_vars
\* a request was rejected twice and is now out with the third credential
C1_Witness ==
    /\ pc = "request"
    /\ Len(calls) = 3
    /\ req.first = 1
    /\ calls[1].params["key"] = init_keys[1]
    /\ calls[2].params["key"] = init_keys[2]
    /\ calls[3].params["key"] = init_keys[3]

\* ---------------------------------------------------------------- C2
\* C2: every HTTP call carries the credential that is active once the call is
\* made, so a credential request() rotated to goes out with the retried request
\* and with every later request of the instance; the active credential changes
\* only when a response rejects it; a dropped credential is never sent again.
C2_Send ==
    CallAdded =>
        /\ LastCall'.params["key"] = current_key'
        /\ LastCall'.params["key"] \notin discarded'
C2_Change ==
    current_key' # current_key =>
        /\ pc = "request"
        /\ ClientError(data)
        /\ current_key \in discarded'
        /\ discarded \subseteq discarded'
C2_RotatedKeySticks == [][C2_Send /\ C2_Change]_vars
\* a later operation of the instance is out with the credential rotated to before
C2_Witness ==
    /\ pc = "request"
    /\ Len(calls) = 1
    /\ discarded = {init_keys[1]}
    /\ calls[1].params["key"] = init_keys[2]

\* ---------------------------------------------------------------- C3
\* C3: a client-error response with no unused credential left makes request()
\* raise a RuntimeError whose message carries the platform's error details, and
\* no further HTTP call is made for that request.
C3_Raise ==
    (pc = "request" /\ ClientError(data) /\ api_keys = << >>) =>
        /\ pc' = "raised"
        /\ raised'.type = "RuntimeError"
        /\ raised'.errors = data["error"]["errors"]
        /\ calls' = calls
C3_Raised ==
    pc = "raised" => ~CallAdded
C3_ExhaustionIsFatal == [][C3_Raise /\ C3_Raised]_vars
C3_Witness ==
    /\ pc = "raised"
    /\ raised.type = "RuntimeError"
    /\ raised.errors = "keyInvalid"
    /\ discarded # {}

\* ---------------------------------------------------------------- C4
\* C4: a response without error, or with an error code outside [400,500), is
\* handed to the caller as received: no further HTTP call, no change of the
\* active credential or of the unused ones.
Handed ==
    CASE caller = "direct" -> result
      [] caller = "paginate" -> response
      [] caller = "channels_infos" -> IF ci_datas = << >> THEN NoData ELSE ci_datas[Len(ci_datas)]
      [] caller = "videos_infos" -> IF vi.datas = << >> THEN NoData ELSE vi.datas[Len(vi.datas)]
      [] OTHER -> NoData
C4_Return ==
    (pc = "request" /\ ~ClientError(data)) =>
        /\ calls' = calls
        /\ pc' \notin {"request", "raised"}
        /\ Handed' = data
        /\ UNCHANGED <<api_keys, current_key, discarded, self_params>>
C4_OtherResponsesPassThrough == [][C4_Return]_vars
\* a 5xx document came back on the only call of a request and was returned
C4_Witness ==
    /\ pc = "returned"
    /\ Len(calls) = 1
    /\ "error" \in DOMAIN result
    /\ result["error"]["code"] = 500
    /\ discarded = {}

\* ---------------------------------------------------------------- C5
Items(doc) == IF "items" \in DOMAIN doc THEN doc["items"] ELSE << >>
RECURSIVE ConcatItems(_)
ConcatItems(docs) == IF docs = << >> THEN << >> ELSE Items(Head(docs)) \o ConcatItems(Tail(docs))
\* paginate is over and neither credential exhaustion nor a document that is
\* no page ended it
PaginateEnded ==
    /\ caller = "paginate"
    /\ pc \in {"done", "raised"}
    /\ raised.type \notin {"RuntimeError", "KeyError"}

\* C5: paginate yields the items of every page, in page order and within-page
\* order, each once, and ends right after the first page without continuation
\* token: when it is over it has yielded all items of all pages received, the
\* last page is the only one without a token, and its request was the last one.
C5_PaginateYieldsAllPages ==
    /\ (caller = "paginate" /\ pc = "pag_items") =>
          yielded = ConcatItems(SubSeq(pages, 1, Len(pages) - 1)) \o SubSeq(Items(response), 1, idx)
    /\ PaginateEnded =>
          /\ pages # << >>
          /\ yielded = ConcatItems(pages)
          /\ \A k \in 1..Len(pages) : (NextPageToken(pages[k]) = NoToken) <=> (k = Len(pages))
          /\ data = pages[Len(pages)]

\* ---------------------------------------------------------------- C6
CallerPart(params) == Without(Without(Without(params, "key"), "maxResults"), "pageToken")
\* C6: between the page requests of one pagination only pageToken changes, set
\* to the token of the previous page; all other parameters of the caller go out
\* unchanged with every page request, whatever the caller passed, no mapping
\* at all included: a page with a token is always followed by its next request.
C6_OnlyTokenChanges ==
    caller = "paginate" =>
        /\ \A i \in 1..Len(calls) : CallerPart(calls[i].params) = CallerPart(OrEmpty(pag.given))
        /\ (pc = "request" /\ pages # << >>) =>
              /\ "pageToken" \in DOMAIN LastCall.params
              /\ LastCall.params["pageToken"] = NextPageToken(pages[Len(pages)])
        /\ raised.type # "TypeError"

\* ---------------------------------------------------------------- C7
\* C7: every HTTP call of the instance carries maxResults = 50, and the value
\* kept in the client's own parameters stays 50 through every operation.
C7_PageSizeFixed ==
    /\ "maxResults" \in DOMAIN self_params
    /\ self_params["maxResults"] = 50
    /\ \A i \in 1..Len(calls) :
          /\ "maxResults" \in DOMAIN calls[i].params
          /\ calls[i].params["maxResults"] = 50
\* a pagination is at its second page after a credential rotation
C7_Witness ==
    /\ caller = "paginate"
    /\ pc = "request"
    /\ Len(pages) = 1
    /\ discarded # {}
    /\ Len(calls) >= 3
    /\ "pageToken" \in DOMAIN LastCall.params

\* ---------------------------------------------------------------- C8
RECURSIVE Flatten(_)
Flatten(batches) == IF batches = << >> THEN << >> ELSE Head(batches) \o Flatten(Tail(batches))

\* C8: the batches ipartition yields are non-empty, all of length partition_size
\* but possibly the last, which has 1..partition_size elements; joined they are
\* the input in its order; no batch for an empty input and no empty batch after
\* an input whose length is a multiple of partition_size.
C8_Batches ==
    /\ \A k \in 1..Len(ip.out) :
          /\ Len(ip.out[k]) \in 1..ip.size
          /\ k < Len(ip.out) => Len(ip.out[k]) = ip.size
    /\ Flatten(ip.out) = SubSeq(ip.input, 1, Len(Flatten(ip.out)))
    /\ ip.pc = "done" =>
          /\ Flatten(ip.out) = ip.input
          /\ ip.input = << >> => ip.out = << >>
          /\ Len(ip.input) % ip.size = 0 => Len(ip.out) = Len(ip.input) \div ip.size
\* five elements in batches of two: 2, 2, 1
C8_Witness ==
    /\ ip.pc = "done"
    /\ Len(ip.input) = 5
    /\ ip.size = 2
    /\ Len(ip.out) = 3
    /\ Len(ip.out[3]) = 1

\* ---------------------------------------------------------------- C9
\* C9: ipartition pulls the elements of its input one by one with next(), each
\* once and in order, for a list as for an iterator, and calls next() no more
\* once it raised StopIteration.
C9_SinglePass ==
    /\ ip.pulled = SubSeq(ip.input, 1, Len(ip.pulled))
    /\ ip.stops <= 1
    /\ ip.nexts = Len(ip.pulled) + ip.stops
    /\ ip.stops = 1 => ip.pulled = ip.input
    /\ ip.pc = "done" => (ip.pulled = ip.input /\ ip.stops = 1)
\* an iterator of four elements, batches of two: the StopIteration comes after
\* the second full batch
C9_Witness ==
    /\ ip.pc = "done"
    /\ ip.kind = "iterator"
    /\ Len(ip.input) = 4
    /\ ip.size = 2
    /\ ip.nexts = 5

\* --------------------------------------------------------------- C10
\* the batch the i-th input identifier goes out in
BatchOf(i) == ((i - 1) \div BatchSize) + 1
FoundIn(doc, id) == \E k \in 1..Len(Items(doc)) : Items(doc)[k]["id"] = id
\* C10: channels_infos yields one output per input identifier, in input order:
\* the record of that id, or None when its batch's response does not hold the id.
C10_OneOutputPerId ==
    (caller = "channels_infos" /\ pc = "done") =>
        /\ Len(yielded) = Len(ci.ids)
        /\ \A i \in 1..Len(ci.ids) :
              i <= Len(yielded) =>
                 IF FoundIn(ci_datas[BatchOf(i)], ci.ids[i])
                 THEN yielded[i] # PyNone /\ yielded[i]["id"] = ci.ids[i]
                 ELSE yielded[i] = PyNone

\* --------------------------------------------------------------- C11
VideoFoundIn(doc, id) == \E k \in 1..Len(Items(doc)) : Items(doc)[k]["id"] = [t |-> "str", v |-> id]
\* C11 as claimed: videos_infos yields one output per input identifier, in
\* input order: the record of that id, or None when its batch's response does
\* not hold the id.
C11_OneOutputPerVideoId ==
    (caller = "videos_infos" /\ pc = "done") =>
        /\ Len(yielded) = Len(vi.ids)
        /\ \A i \in 1..Len(vi.ids) :
              i <= Len(yielded) =>
                 IF VideoFoundIn(vi.datas[BatchOf(i)], vi.ids[i])
                 THEN yielded[i] # PyNone /\ yielded[i]["id"] = [t |-> "str", v |-> vi.ids[i]]
                 ELSE yielded[i] = PyNone

\* the documents of the batches whose items have all been yielded (a generator
\* closed by its consumer was closed amid the items of the last document)
VideoDatasDone ==
    IF pc \in {"vi_data", "closed"} THEN SubSeq(vi.datas, 1, Len(vi.datas) - 1) ELSE vi.datas
\* C11, amended: videos_infos yields one record per item the platform returned,
\* not one per input identifier: batch by batch, for each item of the batch's
\* response and in the response's order, the record parsed from that item. An
\* id missing from its batch's response produces no output, so what has been
\* yielded is always the start of the returned items, and all of them, for
\* every batch of the input, once the generator has ended.
C11_YieldsReturnedItems ==
    caller = "videos_infos" =>
        LET returned == ConcatItems(vi.datas)
        IN /\ Len(yielded) <= Len(returned)
           /\ Len(yielded) >= Len(ConcatItems(VideoDatasDone))
           /\ \A i \in 1..Len(yielded) :
                 /\ yielded[i] # PyNone
                 /\ yielded[i]["id"] = returned[i]["id"]
                 /\ yielded[i]["title"] = returned[i]["snippet"]["title"]
           /\ pc = "done" =>
                 /\ Len(yielded) = Len(returned)
                 /\ Len(vi.datas) = BatchOf(Len(vi.ids) + BatchSize) - 1
\* two batches were answered, two records came out, and an input id has none
C11_Witness ==
    /\ caller = "videos_infos"
    /\ pc = "done"
    /\ Len(vi.datas) = 2
    /\ Len(yielded) = 2
    /\ \E i \in 1..Len(vi.ids) : \A j \in 1..Len(yielded) : yielded[j]["id"].v # vi.ids[i]

\* --------------------------------------------------------------- C12
\* the number of identifiers in a comma-separated "id" parameter
RECURSIVE CountIds(_)
CountIds(s) ==
    IF s = "" THEN 0
    ELSE IF \A i \in 1..Len(s) : SubSeq(s, i, i) # "," THEN 1
    ELSE 1 + CountIds(SubSeq(s, (CHOOSE i \in 1..Len(s) : SubSeq(s, i, i) = ",") + 1, Len(s)))
\* the input positions of the k-th batch
PositionsOf(ids, k) == SubSeq(ids, (k - 1) * BatchSize + 1, Min(k * BatchSize, Len(ids)))
BulkCallers == {"channels_infos", "videos_infos"}
BulkIds == IF caller = "channels_infos" THEN ci.ids ELSE vi.ids
BulkRest == IF caller = "channels_infos" THEN ci.rest ELSE vi.rest
\* how many requests the running bulk lookup has issued
BulkRequests == BatchOf(Len(BulkIds) - Len(BulkRest) + BatchSize) - 1
C12_Sent ==
    caller \in BulkCallers =>
        /\ Len(BulkIds) - Len(BulkRest) = Min(BulkRequests * BatchSize, Len(BulkIds))
        /\ \A j \in 1..Len(calls) :
              /\ CountIds(calls[j].params["id"]) \in 1..BatchSize
              /\ \E k \in 1..BulkRequests : calls[j].params["id"] = Join(PositionsOf(BulkIds, k))
        /\ pc = "done" => BulkRest = << >>
C12_Request ==
    (CallAdded /\ caller \in BulkCallers) =>
        /\ BulkRequests' = (IF pc = "request" THEN BulkRequests ELSE BulkRequests + 1)
        /\ LastCall'.params["id"] = Join(PositionsOf(BulkIds, BulkRequests'))
\* C12: every request of channels_infos and videos_infos carries at most
\* BatchSize (50) identifiers; the k-th request of a call carries the input
\* positions (k-1)*BatchSize+1 .. k*BatchSize in input order (a retry with the
\* next credential repeats the identifiers of the request it retries), and when
\* the call ends every input position has been sent.
C12_BatchesCoverInput == []C12_Sent /\ [][C12_Request]_vars
\* a lookup of MaxIds identifiers ended after two requests
C12_Witness ==
    /\ caller = "videos_infos"
    /\ pc = "done"
    /\ Len(vi.ids) = MaxIds
    /\ Len(vi.datas) = 2

\* --------------------------------------------------------------- C13
\* the text of a cue without the whitespace around it
Content(cue) == Strip(cue.text)
\* cues i..j are a maximal run of cues of the same text content
MaximalRun(cues, i, j) ==
    /\ i <= j
    /\ \A k \in i..j : Content(cues[k]) = Content(cues[i])
    /\ i > 1 => Content(cues[i - 1]) # Content(cues[i])
    /\ j < Len(cues) => Content(cues[j + 1]) # Content(cues[i])
\* the non-empty lines of a text
LinesOf(text) == {l \in {SplitLines(text)[n] : n \in 1..Len(SplitLines(text))} : l # ""}
\* C13: every maximal run of consecutive cues of the same text (of one line or
\* of several) comes out as exactly one cue for that text, from the start of
\* the run's first cue to the end of its last. A text of several lines is given
\* one such cue for each of its lines, since output cues hold one line each.
C13_RunsCollapse ==
    vtt.pc = "returned" =>
        \A i, j \in 1..Len(vtt.cues) :
            MaximalRun(vtt.cues, i, j) =>
                \A l \in LinesOf(Content(vtt.cues[i])) :
                    /\ \E k \in 1..Len(vtt.simplified) :
                          vtt.simplified[k] = [start |-> i, end |-> j, text |-> l]
                    /\ Cardinality({k \in 1..Len(vtt.simplified) :
                                       /\ vtt.simplified[k].text = l
                                       /\ vtt.simplified[k].start \in i..j}) = 1

\* --------------------------------------------------------------- C14
\* the lines of every cue's text, in order, each with the cue it is read from
RECURSIVE LinesFrom(_, _)
LinesFrom(cues, k) ==
    IF k > Len(cues) THEN << >>
    ELSE LET lines == SplitLines(Content(cues[k]))
         IN [i \in 1..Len(lines) |-> [cue |-> k, line |-> lines[i]]] \o LinesFrom(cues, k + 1)
NotBlank(line) == Strip(line) # ""
NotEmpty(line) == line # ""
OneLine(text) == \A i \in 1..Len(text) : SubSeq(text, i, i) # "\n"
\* C14 as claimed: one output cue per line that is not blank, in order, and
\* nothing else.
C14_OneCuePerLine ==
    vtt.pc = "returned" =>
        LET all == SelectSeq(LinesFrom(vtt.cues, 1), LAMBDA e : NotBlank(e.line))
        IN /\ Len(vtt.simplified) = Len(all)
           /\ \A k \in 1..Len(vtt.simplified) :
                 k <= Len(all) =>
                    /\ vtt.simplified[k].text = all[k].line
                    /\ vtt.simplified[k].start = all[k].cue
                    /\ OneLine(vtt.simplified[k].text)
                    /\ NotBlank(vtt.simplified[k].text)

\* C14, amended: each cue's text is stripped and split into its lines, and, in
\* order, every non-empty line that differs from the non-empty line before it
\* becomes one single-line output cue starting with the cue it is read from; a
\* line equal to the non-empty line before it emits nothing and stretches the
\* cue emitted for that line to the end of the cue being read. An empty line
\* never becomes an output cue, and every output cue's text is one non-empty
\* line (a line of whitespace inside a text is such a line).
C14_OneCuePerNewLine ==
    vtt.pc = "returned" =>
        LET all == SelectSeq(LinesFrom(vtt.cues, 1), LAMBDA e : NotEmpty(e.line))
            new == {k \in 1..Len(all) : k = 1 \/ all[k].line # all[k - 1].line}
            Rank(k) == Cardinality({j \in new : j <= k})
            Last(k) == CHOOSE j \in k..Len(all) :
                          /\ \A m \in (k + 1)..j : m \notin new
                          /\ j < Len(all) => (j + 1) \in new
        IN /\ Len(vtt.simplified) = Cardinality(new)
           /\ \A k \in new :
                 vtt.simplified[Rank(k)] =
                     [start |-> all[k].cue, end |-> all[Last(k)].cue, text |-> all[k].line]
           /\ \A k \in 1..Len(vtt.simplified) :
                 OneLine(vtt.simplified[k].text) /\ NotEmpty(vtt.simplified[k].text)
\* a text with an empty line inside, followed by a text that repeats its last line
C14_Witness ==
    /\ vtt.pc = "returned"
    /\ Len(vtt.cues) = 2
    /\ vtt.cues[1].text = "A\n\nB"
    /\ vtt.cues[2].text = "B\nA"
    /\ Len(vtt.simplified) = 3

\* --------------------------------------------------------------- C15
\* a string without NUL and without whitespace at either end
TidyStr(str) ==
    /\ \A i \in 1..Len(str) : SubSeq(str, i, i) # "@"
    /\ str # "" => /\ SubSeq(str, 1, 1) \notin {" ", "\t", "\n"}
                   /\ SubSeq(str, Len(str), Len(str)) \notin {" ", "\t", "\n"}
RECURSIVE Tidy(_)
Tidy(value) ==
    IF value = PyNone THEN TRUE
    ELSE CASE value.t = "str" -> TidyStr(value.v)
           [] value.t = "list" -> \A i \in DOMAIN value.v : Tidy(value.v[i])
           [] value.t = "dict" -> \A k \in DOMAIN value.v : Tidy(value.v[k])
           [] OTHER -> TRUE
\* C15: the record any parser returns (category, channel, playlist, video,
\* comment, live-chat message) holds no NUL and no leading or trailing
\* whitespace in any string, at any depth.
C15_RecordsAreClean == ps.pc = "returned" => Tidy([t |-> "dict", v |-> ps.out])

\* --------------------------------------------------------------- C16
\* the id of the video where a resource of each known kind keeps it
IdPath(item) ==
    IF item["kind"] = "youtube#video" THEN item["id"]
    ELSE IF item["kind"] = "youtube#playlistItem" THEN item["snippet"]["resourceId"]["videoId"]
    ELSE item["id"]["videoId"]
C17_ExhaustionEndsTheRun ==
    /\ hv.caught = 0
    /\ hv.exhausted_at > 0 => Len(calls) = hv.exhausted_at

\* --------------------------------------------------------------- C18
WrittenFor(video) ==
    \E r \in 1..Len(hv.written) : hv.written[r]["video_id"] = [t |-> "str", v |-> video]
ChatFor(video) == \E r \in 1..Len(hv.chat) : hv.chat[r] = video
\* C18: when the comments (or the chat) of a video cannot be fetched because
\* they are switched off, only that video is skipped: once the run is over, the
\* comments of every later video that has them enabled have been written, and
\* so has the chat of every later video that has one, whenever the list of
\* credentials holds one the platform accepts.
C18_OnlyThatVideoSkipped ==
    (hv.pc = "closed" /\ \E k \in 1..Len(init_keys) : init_keys[k] \in env.working) =>
        \A i, j \in 1..Len(hv.videos) :
            i < j =>
               /\ (hv.videos[i] \in env.disabled /\ hv.videos[j] \notin env.disabled)
                     => WrittenFor(hv.videos[j])
               /\ (hv.videos[i] \in env.nochat /\ hv.videos[j] \notin env.nochat)
                     => ChatFor(hv.videos[j])

\* --------------------------------------------------------------- C19
\* C19: with skip_downloaded, no video is submitted to the downloader whose
\* file <video_id>.<language_code>.vtt (the language code as the function uses
\* it, in lower case) is in the destination directory; so a run that starts
\* with the file of every video in place submits nothing.
C19_NoDownloadedVideoSubmitted ==
    tr.skip =>
        /\ \A b \in 1..Len(tr.submitted) :
              \A v \in VideoIds :
                 (\E i \in 1..Len(tr.submitted[b].urls) :
                      tr.submitted[b].urls[i] = "https://www.youtube.com/watch?v=" \o v)
                     => (v \o "." \o Lower(tr.lang) \o ".vtt") \notin tr.submitted[b].found
        /\ (\A i \in 1..Len(tr.ids) : (tr.ids[i] \o "." \o Lower(tr.lang) \o ".vtt") \in tr.files0)
              => tr.submitted = << >>
\* a second run, after a first one that wrote the file of every video, is over
\* and has submitted nothing
C19_Witness ==
    /\ tr.skip
    /\ tr.run = 2
    /\ tr.pc = "returned"
    /\ Len(tr.ids) = MaxTrIds
    /\ tr.lang = "EN"
    /\ tr.files0 = {tr.ids[i] \o ".en.vtt" : i \in 1..Len(tr.ids)}
    /\ tr.submitted = << >>

\* --------------------------------------------------------------- C20
\* C20: with no credential by flag or environment, channel-info, video-info,
\* video-search and video-comments end with a non-zero exit status and the
\* error "You must specify either --api-key or set YOUTUBE_API_KEY for this
\* command", while channel-id, video-livechat and video-transcription run to
\* completion (exit status 0).
C20_CredentialRequiredOnlyByApiCommands ==
    (cli.pc = "exited" /\ cli.flag = "None" /\ cli.environ = "None") =>
        IF cli.command \in {"channel-info", "video-info", "video-search", "video-comments"}
        THEN /\ cli.status # 0
             /\ cli.stderr = "You must specify either --api-key or set YOUTUBE_API_KEY for this command"
        ELSE cli.status = 0

\* --------------------------------------------------------------- C21
\* C21: channel-id, channel-info, video-info, video-search and
\* video-transcription, called with neither identifiers or URLs nor an input
\* file, end with an error, and no API request, scrape or download was issued
\* before it.
C21_MissingInputAborts ==
    (/\ cli.pc \in {"returned", "raised"}
     /\ cli.command \in {"channel-id", "channel-info", "video-info", "video-search",
                         "video-transcription"}
     /\ cli.file = PyNone
     /\ cli.ids \in {PyNone, PyList(<< >>)}
     /\ cli.urls \in {PyNone, PyList(<< >>)})
        => (cli.pc = "raised" /\ cli.raised # "None" /\ cli.work = 0)
\* video-transcription, called with empty lists and no file, has raised
C21_Witness ==
    /\ cli.pc = "raised"
    /\ cli.command = "video-transcription"
    /\ cli.file = PyNone
    /\ cli.ids = PyList(<< >>)
    /\ cli.urls = PyNone
    /\ cli.raised = "Exception"
    /\ cli.work = 0

\* --------------------------------------------------------------- C22
\* the lines the claim describes: the first record's field names, then one
\* row per record in input order
C22_Lines(records) ==
    <<Line(Fieldnames(records))>>
    \o [i \in DOMAIN records |->
           Line([j \in DOMAIN Fieldnames(records) |->
                    IF HasKey(records[i], Fieldnames(records)[j])
                    THEN Cell(Value(records[i], Fieldnames(records)[j])) ELSE ""])]
C22_PathGiven == ps.item.output_file_path \notin {PyNone, PyStr("")}
\* C22: data_to_csv writes a header row of the first record's field names and
\* one row per record in input order; given an output file path it writes
\* that file and returns the path, otherwise it returns the text and writes
\* no file.
C22_HeaderThenRows ==
    (ps.parser = "data_to_csv" /\ ps.pc \in {"returned", "raised"}) =>
        /\ ps.pc = "returned"
        /\ IF C22_PathGiven
           THEN /\ ps.out = ps.item.output_file_path
                /\ DOMAIN ps.item.files = {ps.out.v}
                /\ ps.item.files[ps.out.v] = C22_Lines(ps.item.data)
           ELSE /\ ps.out = [t |-> "text", v |-> C22_Lines(ps.item.data)]
                /\ DOMAIN ps.item.files = {}
\* C22 (amended): when no record has a field the first record lacks, the text
\* is a header of the first record's field names and one row per record in
\* input order, a missing field left empty; it goes to the file at the given
\* path, or to a new file inside it when the path is a directory, and the path
\* of the file written is returned; with no path the text is returned and no
\* file is written. A record with a field the first lacks makes the call fail
\* with ValueError, nothing being returned.
C22_HeaderThenRowsOfKnownFields ==
    (ps.parser = "data_to_csv" /\ ps.pc \in {"returned", "raised"}) =>
        IF \A i \in DOMAIN ps.item.data :
              \A j \in DOMAIN ps.item.data[i] : HasKey(ps.item.data[1], ps.item.data[i][j].k)
        THEN /\ ps.pc = "returned"
             /\ IF C22_PathGiven
                THEN /\ ps.out.t = "str"
                     /\ ps.item.output_file_path # PyStr("out") => ps.out = ps.item.output_file_path
                     /\ ps.item.output_file_path = PyStr("out") =>
                            SubSeq(ps.out.v, 1, 4) = "out/"
                     /\ DOMAIN ps.item.files = {ps.out.v}
                     /\ ps.item.files[ps.out.v] = C22_Lines(ps.item.data)
                ELSE /\ ps.out = [t |-> "text", v |-> C22_Lines(ps.item.data)]
                     /\ DOMAIN ps.item.files = {}
        ELSE /\ ps.pc = "raised"
             /\ ps.raised.type = "ValueError"
             /\ ps.out = NoPs.out
\* two records, the second without a field of the first, were written to the
\* file asked for
C22_Witness ==
    /\ ps.parser = "data_to_csv"
    /\ ps.pc = "returned"
    /\ ps.out = PyStr("out.csv")
    /\ Len(ps.item.data) = 2
    /\ Len(ps.item.data[1]) = 2
    /\ Len(ps.item.data[2]) = 1
    /\ Len(ps.item.files["out.csv"]) = 3

\* --------------------------------------------------------------- C23
C23_Called == ps.parser = "parse_datetime" /\ ps.pc \in {"returned", "raised"}
\* the date and time of the call is a valid one, and the instant it names when
\* read as UTC
C23_GoodDate == ps.item.date \in {"2022-01-15T01:02:03", "1999-12-31T23:59:59"}
C23_Utc ==
    IF ps.item.date = "2022-01-15T01:02:03"
    THEN [t |-> "datetime", year |-> 2022, month |-> 1, day |-> 15, hour |-> 1, minute |-> 2,
          second |-> 3, utcoffset |-> 0]
    ELSE [t |-> "datetime", year |-> 1999, month |-> 12, day |-> 31, hour |-> 23, minute |-> 59,
          second |-> 59, utcoffset |-> 0]
C23_Empty == ps.item.date = "" /\ ps.item.zone = ""
\* neither a date and time nor nothing at all, or a date and time without zone
C23_Malformed ==
    \/ ps.item.date \in {"x", "2022-13-15T01:02:03"}
    \/ ps.item.date = "" /\ ps.item.zone # ""
    \/ C23_GoodDate /\ ps.item.zone = ""
\* C23: parse_datetime returns null for empty or null input; for an RFC3339
\* timestamp ending in Z (with or without a fraction of a second) it returns
\* the instant the timestamp names in UTC; for malformed input it raises and
\* returns nothing.
C23_ZuluIsUtc ==
    C23_Called =>
        /\ C23_Empty => (ps.pc = "returned" /\ ps.out = PyNone)
        /\ (C23_GoodDate /\ ps.item.zone \in {"Z", ".5Z"}) =>
              (ps.pc = "returned" /\ ps.out = [C23_Utc EXCEPT !.utcoffset = 0])
        /\ C23_Malformed => (ps.pc = "raised" /\ ps.out = NoPs.out)
\* C23 (amended): parse_datetime returns null for empty or null input; for a
\* timestamp YYYY-MM-DDTHH:MM:SS followed by Z it returns the instant the
\* timestamp names in UTC, as it does for the same timestamp followed by
\* +00:00; for malformed input, and for a timestamp with a fraction of a
\* second, it raises ValueError and returns nothing.
C23_WholeSecondZuluIsUtc ==
    C23_Called =>
        /\ C23_Empty => (ps.pc = "returned" /\ ps.out = PyNone)
        /\ (C23_GoodDate /\ ps.item.zone \in {"Z", "+00:00"}) =>
              (ps.pc = "returned" /\ ps.out = C23_Utc)
        /\ (C23_Malformed \/ (C23_GoodDate /\ ps.item.zone \in {".5Z", ".000+00:00"})) =>
              (ps.pc = "raised" /\ ps.raised.type = "ValueError" /\ ps.out = NoPs.out)
\* "1999-12-31T23:59:59Z", padded, came back as that instant in UTC
C23_Witness ==
    /\ ps.parser = "parse_datetime"
    /\ ps.pc = "returned"
    /\ ps.item.value = PyStr(" 1999-12-31T23:59:59Z ")
    /\ ps.out.year = 1999
    /\ ps.out.utcoffset = 0

\* --------------------------------------------------------------- C24
\* the inputs that are empty or null (a string of blanks counted as empty)
C24_Empty == ps.item.value \in {PyNone, PyStr(""), PyStr(" ")}
\* the inputs with an integer value, numbers and numerals, and that value
C24_Integers ==
    {<<[t |-> "int", v |-> "0"], 0>>, <<[t |-> "int", v |-> "7"], 7>>,
     <<[t |-> "int", v |-> "-7"], 0 - 7>>, <<PyStr("0"), 0>>, <<PyStr("7"), 7>>,
     <<PyStr(" 7"), 7>>, <<PyStr("7 "), 7>>, <<PyStr("007"), 7>>, <<PyStr("-7"), 0 - 7>>}
\* the inputs with a decimal value, and its digits
C24_Decimals ==
    {<<[t |-> "int", v |-> "0"], "0">>, <<[t |-> "int", v |-> "7"], "7">>,
     <<[t |-> "float", v |-> "0.0"], "0.0">>, <<[t |-> "float", v |-> "3.14"], "3.14">>,
     <<[t |-> "float", v |-> "3.0"], "3.0">>, <<PyStr("3.14"), "3.14">>, <<PyStr("0"), "0">>,
     <<PyStr(" 7"), "7">>, <<PyStr("-7"), "-7">>}
\* C24: parse_int and parse_decimal return null exactly when the input is
\* empty or null; for every other input with an integer (decimal) value, given
\* as a number or as a string, they return that value.
C24_NullOnlyForEmpty ==
    (ps.parser \in {"parse_int", "parse_decimal"} /\ ps.pc \in {"returned", "raised"}) =>
        /\ (ps.pc = "returned" /\ ps.out = PyNone) <=> C24_Empty
        /\ ps.parser = "parse_int" =>
              \A e \in C24_Integers :
                 ps.item.value = e[1] => (ps.pc = "returned" /\ ps.out = [t |-> "int", v |-> e[2]])
        /\ ps.parser = "parse_decimal" =>
              \A e \in C24_Decimals :
                 ps.item.value = e[1] =>
                    (ps.pc = "returned" /\ ps.out = [t |-> "Decimal", v |-> e[2]])

\* --------------------------------------------------------------- C25
RECURSIVE C25_Handed(_, _)
\* how many outputs the batches answered so far call for: one per identifier of
\* a channels_infos batch that came back with items, one per item of a
\* videos_infos batch
C25_Handed(docs, k) ==
    IF k > Len(docs) THEN 0
    ELSE C25_Handed(docs, k + 1)
         + (IF caller = "videos_infos" THEN Len(Items(docs[k]))
            ELSE IF Items(docs[k]) = << >> THEN 0
            ELSE IF k * BatchSize <= Len(ci.ids) THEN BatchSize
            ELSE Len(ci.ids) - (k - 1) * BatchSize)
\* a step that sends the request for a page or batch after the first one
C25_NextRequest ==
    /\ pc # "request"
    /\ pc' = "request"
    /\ calls # << >>
    /\ caller' \in {"paginate", "channels_infos", "videos_infos"}
C25_Step ==
    /\ C25_NextRequest =>
          CASE caller = "paginate" -> yielded = ConcatItems(pages)
            [] caller = "channels_infos" -> Len(yielded) = C25_Handed(ci_datas, 1)
            [] caller = "videos_infos" -> Len(yielded) = C25_Handed(vi.datas, 1)
    /\ pc = "closed" => (pc' = "idle" /\ calls' = << >>)
\* C25: the request for page k+1 (batch k+1) is sent only when the consumer
\* has been handed every item of page k (batch k) and asks for more; once the
\* consumer has stopped, no request follows.
C25_RequestsOnDemand == [][C25_Step]_vars
\* the consumer took the first item of a page that has a successor and
\* stopped: one request was sent
C25_Witness ==
    /\ caller = "paginate"
    /\ pc = "closed"
    /\ NextPageToken(response) # NoToken
    /\ Len(yielded) = 1
    /\ Len(calls) = 1

\* --------------------------------------------------------------- C26
RECURSIVE C26_Expected(_)
\* for the threads received, in order: the identifier and reply count of the
\* top-level comment, then the identifier of each reply with no reply count
C26_Expected(threads) ==
    IF threads = << >> THEN << >>
    ELSE <<[id |-> Head(threads)["snippet"]["topLevelComment"]["id"],
            replies |-> Head(threads)["snippet"]["totalReplyCount"]]>>
         \o (IF "replies" \in DOMAIN Head(threads)
             THEN [i \in DOMAIN Head(threads)["replies"]["comments"] |->
                      [id |-> Head(threads)["replies"]["comments"][i]["id"], replies |-> PyNone]]
             ELSE << >>)
         \o C26_Expected(Tail(threads))
C26_Step ==
    (hv.pc = "comments" /\ pc = "done" /\ pc' = "idle") =>
        LET new == SubSeq(hv'.written, Len(hv.written) + 1, Len(hv'.written))
        IN [i \in DOMAIN new |-> [id |-> new[i].id, replies |-> new[i].replies]]
               = C26_Expected(ConcatItems(pages))
\* C26: for each comment thread, in page order, video_comments yields the
\* top-level comment with the thread's reply count, immediately followed by the
\* thread's replies in the order returned, each with a null reply count.
C26_ThreadThenReplies == [][C26_Step]_vars
\* a thread with two replies and a thread after it were written: comment,
\* reply, reply, comment
C26_Witness ==
    /\ Len(hv.written) >= 4
    /\ hv.written[1].replies = PyInt(2)
    /\ hv.written[2].replies = PyNone
    /\ hv.written[3].replies = PyNone
    /\ hv.written[2].id # hv.written[3].id
    /\ hv.written[4].replies # PyNone
    /\ hv.written[4].video_id = hv.written[1].video_id

\* --------------------------------------------------------------- C27
\* the calls of the running pagination that were retried with another credential
C27_Rotations == {i \in 1..(Len(calls) - 1) : calls[i].params["key"] # calls[i + 1].params["key"]}
\* C27: when a page request of a pagination is rejected and retried with the
\* next credential, the retry asks for the same page with the same
\* continuation token, and, unless the credentials run out, the consumer gets
\* the items of every page once and in order, up to the page without token.
C27_RotationKeepsPagination ==
    (caller = "paginate" /\ C27_Rotations # {}) =>
        /\ \A i \in C27_Rotations :
              /\ calls[i + 1].url = calls[i].url
              /\ Without(calls[i + 1].params, "key") = Without(calls[i].params, "key")
        /\ pc = "pag_items" =>
              yielded = ConcatItems(SubSeq(pages, 1, Len(pages) - 1))
                        \o SubSeq(Items(response), 1, idx)
        /\ PaginateEnded =>
              /\ yielded = ConcatItems(pages)
              /\ \A k \in 1..Len(pages) : (NextPageToken(pages[k]) = NoToken) <=> (k = Len(pages))

\* --------------------------------------------------------------- C28
C28_Step ==
    /\ (pc = "idle" /\ pc' = "request") => (Len(calls') = 1 /\ api_keys' = api_keys)
    /\ (pc = "request" /\ calls' # calls) =>
          /\ Len(calls') = Len(calls) + 1
          /\ Len(api_keys') = Len(api_keys) - 1
    /\ \E k \in 0..Len(api_keys) : api_keys' = SubSeq(api_keys, k + 1, Len(api_keys))
C28_Ends ==
    \/ pc = "returned" /\ result = data
    \/ pc = "raised" /\ raised.type = "RuntimeError"
\* C28: a request() call issues one HTTP call and then one more per credential
\* it takes from the unused ones, which a retry always shortens by one and
\* nothing ever lengthens: at most 1 + (unused credentials at call time) calls;
\* and it always comes to an end, returning the response or raising the
\* exhaustion error.
C28_RequestTerminates ==
    /\ [][C28_Step]_vars
    /\ [](pc = "request" => Len(calls) + Len(api_keys) <= Len(init_keys))
    /\ (pc = "request") ~> C28_Ends
\* a request on a fresh client used up every credential and raised
C28_Witness ==
    /\ pc = "raised"
    /\ raised.type = "RuntimeError"
    /\ Len(init_keys) = MaxKeys
    /\ Len(calls) = MaxKeys
    /\ api_keys = << >>

\* --------------------------------------------------------------- C29
\* C29: no two adjacent cues of the output of simplify_vtt carry the same text,
\* whatever the cue list read, a line repeated after nothing but blank lines
\* included.
C29_NoAdjacentRepeat ==
    \A k \in 1..(Len(vtt.simplified) - 1) :
        vtt.simplified[k].text # vtt.simplified[k + 1].text
\* a line repeated right after a blank line, then again in the next cue, and
\* written once
C29_Witness ==
    /\ vtt.pc = "returned"
    /\ Len(vtt.cues) = 3
    /\ vtt.cues[1].text = "A\n\nA"
    /\ vtt.cues[2].text = "A"
    /\ vtt.cues[3].text = "B"
    /\ Len(vtt.simplified) = 2

\* --------------------------------------------------------------- C30
\* the URLs of the videos read so far and not passed over, in input order
C30_Due ==
    LET keep == SelectSeq([i \in 1..tr.pos |-> i], LAMBDA i : i \notin tr.skipped)
    IN [k \in 1..Len(keep) |-> "https://www.youtube.com/watch?v=" \o tr.ids[keep[k]]]
RECURSIVE C30_Flat(_)
C30_Flat(batches) ==
    IF batches = << >> THEN << >> ELSE Head(batches).urls \o C30_Flat(Tail(batches))
\* C30: every video not passed over is submitted to the downloader exactly
\* once, in input order, in batches of batch_size videos but for a shorter last
\* one, never an empty one, and a failed download stops nothing: the batches
\* after it are submitted all the same.
C30_AllSubmittedOnceInOrder ==
    /\ C30_Flat(tr.submitted) \o tr.batch = C30_Due
    /\ \A k \in 1..Len(tr.submitted) :
          /\ Len(tr.submitted[k].urls) \in 1..tr.size
          /\ k < Len(tr.submitted) => Len(tr.submitted[k].urls) = tr.size
    /\ tr.pc = "loop" => Len(tr.batch) < tr.size
    /\ tr.pc = "returned" => tr.pos = Len(tr.ids) /\ tr.batch = << >>
\* the download of a first, full batch failed and the shorter last batch was
\* submitted after it
C30_Witness ==
    /\ tr.pc = "returned"
    /\ Len(tr.submitted) = 2
    /\ tr.submitted[1].failed
    /\ Len(tr.submitted[1].urls) = 2
    /\ Len(tr.submitted[2].urls) = 1
    /\ ~tr.submitted[2].failed
====
